---- MODULE Spec2Model ----
(***************************************************************************)
(* The connection pipeline of socks5-server:                               *)
(*   IncomingConnection --authenticate--> Authenticated                    *)
(*     --wait_request--> Connect<NeedReply> | Bind<..> | Associate<..>     *)
(*     --reply--> Connect<Ready>                                           *)
(* Every async operation is a future: calling it moves `self` into the     *)
(* future, and each `.await` inside it is one step of the model.  The      *)
(* caller's bindings are `conn` (a stage wrapper), `raw` (raw TcpStreams)  *)
(* and `result` (the last Result, without the stream it carries).          *)
(***************************************************************************)
EXTENDS Integers, Sequences, FiniteSets, TLC

VARIABLES conn, fut, raw, result, sock, accepted

vars == <<conn, fut, raw, result, sock, accepted>>

(***************************************************************************)
(* Bounds of the model.                                                    *)
(***************************************************************************)
MaxMethods == 2
MaxCallerOps == 2

\* The sockets of the process: file descriptors.
Handles == {"fd3", "fd4"}
Conns == {"c1"}

\* The fields of the records below, in the order every record lists them.
RecordFields ==
    DOMAIN [addr |-> {}, address |-> {}, auth |-> {}, by |-> {},
            bytes |-> {}, chosen_method |-> {}, command |-> {},
            domain |-> {}, err |-> {}, error |-> {}, io |-> {}, ip |-> {},
            kind |-> {}, method |-> {}, methods |-> {}, msg |-> {},
            name |-> {}, ok |-> {}, op |-> {}, output |-> {}, pc |-> {},
            port |-> {}, reply |-> {}, req |-> {}, resp |-> {}, state |-> {},
            stream |-> {}, tag |-> {}, type |-> {}, variant |-> {},
            version |-> {}, wr_shutdown |-> {}, wrapper |-> {}]

(***************************************************************************)
(* Wire-format values of the socks5_proto collaborator (RFC 1928).         *)
(***************************************************************************)
SOCKS_VERSION == 5
NONE == 0
GSSAPI == 1
PASSWORD == 2
UNACCEPTABLE == 255

Methods == {NONE, GSSAPI, PASSWORD, UNACCEPTABLE}

Succeeded == 0
HostUnreachable == 4
CommandNotSupported == 7

Replies == {Succeeded, HostUnreachable, CommandNotSupported}

ProtocolCommands == {"Associate", "Bind", "Connect"}

ATYP_IPV4 == 1
ATYP_FQDN == 3
ATYP_IPV6 == 4

ByteRange == 256

Address_unspecified == [ip |-> <<0, 0, 0, 0>>, port |-> 0, type |-> "SocketAddress"]

\* The addresses a client asks for.
RequestAddresses ==
    { [domain |-> <<97, 46, 98>>, port |-> 80, type |-> "DomainAddress"],
      [ip |-> <<127, 0, 0, 1>>, port |-> 5000, type |-> "SocketAddress"] }

\* A domain name one byte longer than one octet can count.
LongDomain == [i \in 1..ByteRange |-> 97]

\* The addresses a caller replies with: Address::DomainAddress(Vec<u8>, u16)
\* with a short and with a long name, Address::SocketAddress with an IPv4
\* and with an IPv6 address.
Addresses ==
    { [domain |-> <<120>>, port |-> 65535, type |-> "DomainAddress"],
      [domain |-> LongDomain, port |-> 80, type |-> "DomainAddress"],
      [ip |-> <<0, 0, 0, 0, 0, 0, 0, 0, 0, 0, 0, 0, 0, 0, 0, 1>>,
       port |-> 443,
       type |-> "SocketAddress"],
      Address_unspecified }

\* The addresses a caller gives in the replies of Bind and Associate: none, or
\* the socket address it listens on.
BoundAddresses ==
    { Address_unspecified,
      [ip |-> <<127, 0, 0, 1>>, port |-> 5000, type |-> "SocketAddress"] }

\* Vec<Method>: the methods a client offers, in order, duplicates allowed.
MethodLists == UNION { [1..n -> Methods] : n \in 0..MaxMethods }

\* Vec::contains
contains(methods, m) == \E i \in 1..Len(methods) : methods[i] = m

(***************************************************************************)
(* Values                                                                  *)
(***************************************************************************)
Moved == [type |-> "None"]
NoFuture == [op |-> "none"]
NoResult == [tag |-> "None"]

\* IncomingConnection::new
IncomingConnection_new(stream, auth) ==
    [auth |-> auth, stream |-> stream, type |-> "IncomingConnection"]

\* Authenticated::new
Authenticated_new(stream) == [stream |-> stream, type |-> "Authenticated"]

\* Connect::<NeedReply>::new
Connect_NeedReply_new(stream) ==
    [state |-> "NeedReply", stream |-> stream, type |-> "Connect"]

\* Connect::<Ready>::new
Connect_Ready_new(stream) ==
    [state |-> "Ready", stream |-> stream, type |-> "Connect"]

\* Bind::<NeedFirstReply>::new
Bind_NeedFirstReply_new(stream) ==
    [state |-> "NeedFirstReply", stream |-> stream, type |-> "Bind"]

\* Associate::<NeedReply>::new
Associate_NeedReply_new(stream) ==
    [state |-> "NeedReply", stream |-> stream, type |-> "Associate"]

\* Bind in its second-reply state and in Ready, Associate in Ready.
Bind_NeedSecondReply_new(stream) ==
    [state |-> "NeedSecondReply", stream |-> stream, type |-> "Bind"]

Bind_Ready_new(stream) == [state |-> "Ready", stream |-> stream, type |-> "Bind"]

Associate_Ready_new(stream) ==
    [state |-> "Ready", stream |-> stream, type |-> "Associate"]

\* The authenticators a server is configured with.
AuthAdaptors == { [method |-> NONE], [method |-> PASSWORD] }

\* AuthAdaptor::as_handshake_method
as_handshake_method(auth) == auth.method

\* HandshakeResponse::new
HandshakeResponse_new(method) == [method |-> method]

\* Response::new
Response_new(reply, addr) == [address |-> addr, reply |-> reply]

(***************************************************************************)
(* The wire codec (RFC 1928 message shapes).                               *)
(***************************************************************************)
\* A u16 in network byte order.
u16_bytes(n) == <<n \div ByteRange, n % ByteRange>>

u16_from(hi, lo) == hi * ByteRange + lo

\* Address::write_to: ATYP, then the address, then the port.  A domain name
\* is preceded by its length in one octet.
Address_bytes(addr) ==
    IF addr.type = "DomainAddress"
    THEN <<ATYP_FQDN, Len(addr.domain) % ByteRange>> \o addr.domain \o u16_bytes(addr.port)
    ELSE IF Len(addr.ip) = 4
    THEN <<ATYP_IPV4>> \o addr.ip \o u16_bytes(addr.port)
    ELSE <<ATYP_IPV6>> \o addr.ip \o u16_bytes(addr.port)

\* Address::read_from, on the bytes from ATYP onwards.
Address_decode(b) ==
    IF b[1] = ATYP_FQDN
    THEN LET n == b[2]
         IN  [domain |-> SubSeq(b, 3, 2 + n),
              port |-> u16_from(b[3 + n], b[4 + n]),
              type |-> "DomainAddress"]
    ELSE IF b[1] = ATYP_IPV4
    THEN [ip |-> SubSeq(b, 2, 5), port |-> u16_from(b[6], b[7]), type |-> "SocketAddress"]
    ELSE [ip |-> SubSeq(b, 2, 17), port |-> u16_from(b[18], b[19]), type |-> "SocketAddress"]

\* HandshakeResponse::write_to: VER, METHOD.
HandshakeResponse_bytes(resp) == <<SOCKS_VERSION, resp.method>>

\* HandshakeResponse::read_from
HandshakeResponse_decode(b) == [method |-> b[2]]

\* Response::write_to: VER, REP, RSV, then the address.
Response_bytes(resp) ==
    <<SOCKS_VERSION, resp.reply, 0>> \o Address_bytes(resp.address)

\* Response::read_from
Response_decode(b) ==
    [address |-> Address_decode(SubSeq(b, 4, Len(b))), reply |-> b[2]]

(***************************************************************************)
(* Errors                                                                  *)
(***************************************************************************)
\* socks5_proto::Error::Io
Error_Io == [kind |-> "Io"]

\* socks5_proto::Error::Protocol
Error_Protocol(e) == [error |-> e, kind |-> "Protocol"]

\* ProtocolError::NoAcceptableHandshakeMethod
NoAcceptableHandshakeMethod(version, chosen_method, methods) ==
    [chosen_method |-> chosen_method,
     methods |-> methods,
     name |-> "NoAcceptableHandshakeMethod",
     version |-> version]

\* std::io::Error, as Connect::reply returns it.
IoError == [kind |-> "std::io::Error"]

\* What HandshakeRequest::read_from can fail with.
HandshakeReadErrors == {Error_Io, Error_Protocol([name |-> "ProtocolVersion"])}

\* What Request::read_from can fail with.
RequestReadErrors ==
    {Error_Io, Error_Protocol([name |-> "ProtocolVersion"]),
     Error_Protocol([name |-> "InvalidCommand"])}

(***************************************************************************)
(* The transport: what each socket has seen, in order.                     *)
(***************************************************************************)
ReadEvent(by, msg, ok) == [by |-> by, io |-> "read", msg |-> msg, ok |-> ok]
WriteEvent(by, bytes, ok) == [by |-> by, bytes |-> bytes, io |-> "write", ok |-> ok]
ShutdownEvent(by, ok) == [by |-> by, io |-> "shutdown", ok |-> ok]

\* The socket sees the events `evs`, in order.
Transport(h, evs) ==
    sock' = [sock EXCEPT ![h].io = @ \o evs,
                         ![h].wr_shutdown =
                             @ \/ \E i \in 1..Len(evs) : evs[i].io = "shutdown" /\ evs[i].ok]

\* A write on a socket whose write half was shut down fails.
WriteOutcomes(h) == IF sock[h].wr_shutdown THEN {FALSE} ELSE BOOLEAN

(***************************************************************************)
(* Results: the stream moves with the value.                               *)
(***************************************************************************)
\* Ok(wrapper, ..): the future ends, the caller owns the next stage wrapper.
ReturnOk(c, wrapper, res) ==
    /\ conn' = [conn EXCEPT ![c] = wrapper]
    /\ fut' = [fut EXCEPT ![c] = NoFuture]
    /\ result' = [result EXCEPT ![c] = res]
    /\ UNCHANGED raw

\* Mutant of ReturnErr: the error is returned alone and the stream is dropped.
ReturnErr_dropping_stream(c, op, err, stream) ==
    /\ fut' = [fut EXCEPT ![c] = NoFuture]
    /\ result' = [result EXCEPT ![c] = [err |-> err, op |-> op, tag |-> "Err"]]
    /\ UNCHANGED <<conn, raw>>

\* Mutant of ReturnErr: the error is kept in one place for all connections.
ReturnErr_shared(c, op, err, stream) ==
    /\ raw' = [raw EXCEPT ![c] = @ \cup {stream}]
    /\ fut' = [fut EXCEPT ![c] = NoFuture]
    /\ result' = [d \in DOMAIN result |-> [err |-> err, op |-> op, tag |-> "Err"]]
    /\ UNCHANGED conn

\* Err((err, stream)): the future ends, the caller owns the raw stream.
ReturnErr(c, op, err, stream) ==
    /\ raw' = [raw EXCEPT ![c] = @ \cup {stream}]
    /\ fut' = [fut EXCEPT ![c] = NoFuture]
    /\ result' = [result EXCEPT ![c] = [err |-> err, op |-> op, tag |-> "Err"]]
    /\ UNCHANGED conn

(***************************************************************************)
(* Server::accept hands the caller an IncomingConnection.                  *)
(***************************************************************************)
Init ==
    /\ accepted \in [Conns -> Handles]
    /\ \E auth \in AuthAdaptors :
           conn = [c \in Conns |-> IncomingConnection_new(accepted[c], auth)]
    /\ fut = [c \in Conns |-> NoFuture]
    /\ raw = [c \in Conns |-> {}]
    /\ result = [c \in Conns |-> NoResult]
    /\ sock = [h \in Handles |-> [io |-> <<>>, wr_shutdown |-> FALSE]]

(***************************************************************************)
(* IncomingConnection::authenticate                                        *)
(***************************************************************************)
\* Mutant of method_offered: any offered method is taken as acceptable.
method_offered_any(req, chosen_method) == Len(req.methods) > 0

\* req.methods.contains(&chosen_method)
method_offered(req, chosen_method) == contains(req.methods, chosen_method)

\* Mutant of accept_response: the response always names the
\* no-authentication method.
accept_response_fixed_method(chosen_method) == HandshakeResponse_new(NONE)

\* The response of the accepting branch.
accept_response(chosen_method) == HandshakeResponse_new(chosen_method)

\* The response of the rejecting branch.
reject_response == HandshakeResponse_new(UNACCEPTABLE)

\* The error of the rejecting branch, once its response is written.
reject_error(chosen_method, req) ==
    Error_Protocol(NoAcceptableHandshakeMethod(SOCKS_VERSION, chosen_method, req.methods))

\* What Auth::execute does on the stream and returns: nothing and () for
\* the no-authentication method; for the password method one
\* sub-negotiation (a request read, a status written) and its verdict.
ExecuteRuns(auth, h) ==
    IF as_handshake_method(auth) = NONE
    THEN { [io |-> <<>>, output |-> "()"] }
    ELSE { [io |-> <<ReadEvent("execute", [kind |-> "PasswordRequest"], FALSE)>>,
            output |-> "Err"] }
         \cup
         { [io |-> <<ReadEvent("execute", [kind |-> "PasswordRequest"], TRUE),
                     WriteEvent("execute", <<1, IF good THEN 0 ELSE 1>>, ok)>>,
            output |-> IF ~ok THEN "Err" ELSE IF good THEN "Ok(true)" ELSE "Ok(false)"]
           : good \in BOOLEAN, ok \in WriteOutcomes(h) }

\* conn.authenticate(): `self` moves into the future.
authenticate(c) ==
    /\ fut[c] = NoFuture
    /\ conn[c].type = "IncomingConnection"
    /\ fut' = [fut EXCEPT ![c] = [auth |-> conn[c].auth,
                                  op |-> "authenticate",
                                  pc |-> "read_from",
                                  stream |-> conn[c].stream]]
    /\ conn' = [conn EXCEPT ![c] = Moved]
    /\ UNCHANGED <<raw, result, sock, accepted>>

\* HandshakeRequest::read_from(&mut self.stream).await, then the choice of
\* the branch and of its response.
authenticate_read_from(c) ==
    /\ fut[c].op = "authenticate"
    /\ fut[c].pc = "read_from"
    /\ LET self == fut[c] IN
       \/ \E err \in HandshakeReadErrors :
              /\ Transport(self.stream, <<ReadEvent("authenticate", [kind |-> "HandshakeRequest"], FALSE)>>)
              /\ ReturnErr(c, "authenticate", err, self.stream)
       \/ \E methods \in MethodLists :
              LET req == [kind |-> "HandshakeRequest", methods |-> methods]
                  chosen_method == as_handshake_method(self.auth)
                  offered == method_offered(req, chosen_method)
              IN  /\ Transport(self.stream, <<ReadEvent("authenticate", [kind |-> "HandshakeRequest"], TRUE)>>)
                  /\ fut' = [fut EXCEPT ![c] =
                                [auth |-> self.auth,
                                 chosen_method |-> chosen_method,
                                 op |-> "authenticate",
                                 pc |-> IF offered THEN "accept_write_to" ELSE "reject_write_to",
                                 req |-> req,
                                 resp |-> IF offered THEN accept_response(chosen_method)
                                          ELSE reject_response,
                                 stream |-> self.stream]]
                  /\ UNCHANGED <<conn, raw, result>>
    /\ UNCHANGED accepted

\* Mutant of authenticate_accept_write_to: a failed write of the response is
\* tried again instead of being returned.
authenticate_accept_write_retrying(c) ==
    /\ fut[c].op = "authenticate"
    /\ fut[c].pc = "accept_write_to"
    /\ LET self == fut[c] IN
       \E ok \in WriteOutcomes(self.stream) :
           /\ Transport(self.stream,
                        <<WriteEvent("authenticate", HandshakeResponse_bytes(self.resp), ok)>>)
           /\ fut' = [fut EXCEPT ![c].pc = IF ok THEN "execute" ELSE "accept_write_to"]
           /\ UNCHANGED <<conn, raw, result>>
    /\ UNCHANGED accepted

\* Mutant of authenticate_accept_write_to: the outcome of the write is not
\* looked at and execute follows either way.
authenticate_accept_write_unchecked(c) ==
    /\ fut[c].op = "authenticate"
    /\ fut[c].pc = "accept_write_to"
    /\ LET self == fut[c] IN
       \E ok \in WriteOutcomes(self.stream) :
           /\ Transport(self.stream,
                        <<WriteEvent("authenticate", HandshakeResponse_bytes(self.resp), ok)>>)
           /\ fut' = [fut EXCEPT ![c].pc = "execute"]
           /\ UNCHANGED <<conn, raw, result>>
    /\ UNCHANGED accepted

\* resp.write_to(&mut self.stream).await of the accepting branch.
authenticate_accept_write_to(c) ==
    /\ fut[c].op = "authenticate"
    /\ fut[c].pc = "accept_write_to"
    /\ LET self == fut[c] IN
       \E ok \in WriteOutcomes(self.stream) :
           /\ Transport(self.stream,
                        <<WriteEvent("authenticate", HandshakeResponse_bytes(self.resp), ok)>>)
           /\ IF ok
              THEN /\ fut' = [fut EXCEPT ![c].pc = "execute"]
                   /\ UNCHANGED <<conn, raw, result>>
              ELSE ReturnErr(c, "authenticate", Error_Io, self.stream)
    /\ UNCHANGED accepted

\* Mutant of authenticate_execute: an authenticator that reports a failure
\* makes authenticate fail.
authenticate_execute_failing(c) ==
    /\ fut[c].op = "authenticate"
    /\ fut[c].pc = "execute"
    /\ LET self == fut[c] IN
       \E run \in ExecuteRuns(self.auth, self.stream) :
           /\ Transport(self.stream, run.io)
           /\ IF run.output \in {"Err", "Ok(false)"}
              THEN ReturnErr(c, "authenticate", Error_Io, self.stream)
              ELSE ReturnOk(c, Authenticated_new(self.stream),
                            [op |-> "authenticate", output |-> run.output, tag |-> "Ok"])
    /\ UNCHANGED accepted

\* self.auth.execute(&mut self.stream).await, then Ok((Authenticated, output)).
authenticate_execute(c) ==
    /\ fut[c].op = "authenticate"
    /\ fut[c].pc = "execute"
    /\ LET self == fut[c] IN
       \E run \in ExecuteRuns(self.auth, self.stream) :
           /\ Transport(self.stream, run.io)
           /\ ReturnOk(c, Authenticated_new(self.stream),
                       [op |-> "authenticate", output |-> run.output, tag |-> "Ok"])
    /\ UNCHANGED accepted

\* Mutant of authenticate_reject_write_to: the protocol error is raised at
\* once, without the rejection response being written.
authenticate_reject_without_write(c) ==
    /\ fut[c].op = "authenticate"
    /\ fut[c].pc = "reject_write_to"
    /\ ReturnErr(c, "authenticate",
                 reject_error(fut[c].chosen_method, fut[c].req), fut[c].stream)
    /\ UNCHANGED <<sock, accepted>>

\* Mutant of authenticate_reject_write_to: the rejection is reported as the
\* protocol error whether or not its response could be written.
authenticate_reject_masking_write_error(c) ==
    /\ fut[c].op = "authenticate"
    /\ fut[c].pc = "reject_write_to"
    /\ LET self == fut[c] IN
       \E ok \in WriteOutcomes(self.stream) :
           /\ Transport(self.stream,
                        <<WriteEvent("authenticate", HandshakeResponse_bytes(self.resp), ok)>>)
           /\ ReturnErr(c, "authenticate",
                        reject_error(self.chosen_method, self.req), self.stream)
    /\ UNCHANGED accepted

\* resp.write_to(&mut self.stream).await of the rejecting branch, then the error.
authenticate_reject_write_to(c) ==
    /\ fut[c].op = "authenticate"
    /\ fut[c].pc = "reject_write_to"
    /\ LET self == fut[c] IN
       \E ok \in WriteOutcomes(self.stream) :
           /\ Transport(self.stream,
                        <<WriteEvent("authenticate", HandshakeResponse_bytes(self.resp), ok)>>)
           /\ IF ok
              THEN ReturnErr(c, "authenticate",
                             reject_error(self.chosen_method, self.req), self.stream)
              ELSE ReturnErr(c, "authenticate", Error_Io, self.stream)
    /\ UNCHANGED accepted

(***************************************************************************)
(* Authenticated::wait_request                                             *)
(***************************************************************************)
\* Mutant of Command_of: the Bind and Associate arms are swapped.
Command_of_swapped(req, stream) ==
    CASE req.command = "Associate" ->
             [address |-> req.address,
              variant |-> "Bind",
              wrapper |-> Bind_NeedFirstReply_new(stream)]
      [] req.command = "Bind" ->
             [address |-> req.address,
              variant |-> "Associate",
              wrapper |-> Associate_NeedReply_new(stream)]
      [] req.command = "Connect" ->
             [address |-> req.address,
              variant |-> "Connect",
              wrapper |-> Connect_NeedReply_new(stream)]

\* match req.command: the Command the request is dispatched to.
Command_of(req, stream) ==
    CASE req.command = "Associate" ->
             [address |-> req.address,
              variant |-> "Associate",
              wrapper |-> Associate_NeedReply_new(stream)]
      [] req.command = "Bind" ->
             [address |-> req.address,
              variant |-> "Bind",
              wrapper |-> Bind_NeedFirstReply_new(stream)]
      [] req.command = "Connect" ->
             [address |-> req.address,
              variant |-> "Connect",
              wrapper |-> Connect_NeedReply_new(stream)]

\* conn.wait_request(): `self` moves into the future.
wait_request(c) ==
    /\ fut[c] = NoFuture
    /\ conn[c].type = "Authenticated"
    /\ fut' = [fut EXCEPT ![c] = [op |-> "wait_request", pc |-> "read_from",
                                  stream |-> conn[c].stream]]
    /\ conn' = [conn EXCEPT ![c] = Moved]
    /\ UNCHANGED <<raw, result, sock, accepted>>

\* Mutant of wait_request_read_from: an invalid request closes the connection
\* before the error is returned.
wait_request_closing_on_error(c) ==
    /\ fut[c].op = "wait_request"
    /\ fut[c].pc = "read_from"
    /\ LET self == fut[c] IN
       \/ \E err \in RequestReadErrors :
              /\ Transport(self.stream,
                           <<ReadEvent("wait_request", [kind |-> "Request"], FALSE),
                             ShutdownEvent("wait_request", TRUE)>>)
              /\ ReturnErr(c, "wait_request", err, self.stream)
       \/ \E command \in ProtocolCommands, address \in RequestAddresses :
              LET req == [address |-> address, command |-> command, kind |-> "Request"]
                  cmd == Command_of(req, self.stream)
              IN  /\ Transport(self.stream, <<ReadEvent("wait_request", req, TRUE)>>)
                  /\ ReturnOk(c, cmd.wrapper,
                              [address |-> cmd.address,
                               command |-> cmd.variant,
                               op |-> "wait_request",
                               tag |-> "Ok"])
    /\ UNCHANGED accepted

\* Mutant of wait_request_read_from: an invalid request is answered with a
\* failure reply before the error is returned.
wait_request_replying_on_error(c) ==
    /\ fut[c].op = "wait_request"
    /\ fut[c].pc = "read_from"
    /\ LET self == fut[c] IN
       \/ \E err \in RequestReadErrors :
              /\ Transport(self.stream,
                           <<ReadEvent("wait_request", [kind |-> "Request"], FALSE),
                             WriteEvent("wait_request",
                                        Response_bytes(Response_new(CommandNotSupported,
                                                                    Address_unspecified)),
                                        TRUE)>>)
              /\ ReturnErr(c, "wait_request", err, self.stream)
       \/ \E command \in ProtocolCommands, address \in RequestAddresses :
              LET req == [address |-> address, command |-> command, kind |-> "Request"]
                  cmd == Command_of(req, self.stream)
              IN  /\ Transport(self.stream, <<ReadEvent("wait_request", req, TRUE)>>)
                  /\ ReturnOk(c, cmd.wrapper,
                              [address |-> cmd.address,
                               command |-> cmd.variant,
                               op |-> "wait_request",
                               tag |-> "Ok"])
    /\ UNCHANGED accepted

\* Request::read_from(&mut self.0).await, then the dispatch.
\* Mutant of wait_request_read_from: a request that could not be read is
\* read again.
wait_request_retrying(c) ==
    /\ fut[c].op = "wait_request"
    /\ fut[c].pc = "read_from"
    /\ LET self == fut[c] IN
       \/ /\ Transport(self.stream, <<ReadEvent("wait_request", [kind |-> "Request"], FALSE)>>)
          /\ Len(sock[self.stream].io) < 8
          /\ UNCHANGED <<conn, fut, raw, result>>
       \/ \E command \in ProtocolCommands, address \in RequestAddresses :
              LET req == [address |-> address, command |-> command, kind |-> "Request"]
                  cmd == Command_of(req, self.stream)
              IN  /\ Transport(self.stream, <<ReadEvent("wait_request", req, TRUE)>>)
                  /\ ReturnOk(c, cmd.wrapper,
                              [address |-> cmd.address,
                               command |-> cmd.variant,
                               op |-> "wait_request",
                               tag |-> "Ok"])
    /\ UNCHANGED accepted

wait_request_read_from(c) ==
    /\ fut[c].op = "wait_request"
    /\ fut[c].pc = "read_from"
    /\ LET self == fut[c] IN
       \/ \E err \in RequestReadErrors :
              /\ Transport(self.stream, <<ReadEvent("wait_request", [kind |-> "Request"], FALSE)>>)
              /\ ReturnErr(c, "wait_request", err, self.stream)
       \/ \E command \in ProtocolCommands, address \in RequestAddresses :
              LET req == [address |-> address, command |-> command, kind |-> "Request"]
                  cmd == Command_of(req, self.stream)
              IN  /\ Transport(self.stream, <<ReadEvent("wait_request", req, TRUE)>>)
                  /\ ReturnOk(c, cmd.wrapper,
                              [address |-> cmd.address,
                               command |-> cmd.variant,
                               op |-> "wait_request",
                               tag |-> "Ok"])
    /\ UNCHANGED accepted

(***************************************************************************)
(* Connect<NeedReply>::reply                                               *)
(***************************************************************************)
\* Mutant of reply: reply is there in every state of Connect, Ready included.
reply_in_any_state(c) ==
    /\ fut[c] = NoFuture
    /\ conn[c].type = "Connect"
    /\ \E code \in Replies, addr \in Addresses :
           fut' = [fut EXCEPT ![c] = [addr |-> addr,
                                      op |-> "reply",
                                      pc |-> "write_to",
                                      reply |-> code,
                                      resp |-> Response_new(code, addr),
                                      stream |-> conn[c].stream]]
    /\ conn' = [conn EXCEPT ![c] = Moved]
    /\ UNCHANGED <<raw, result, sock, accepted>>

\* Mutant of reply: the response always reports success, whatever the code given.
reply_always_succeeded(c) ==
    /\ fut[c] = NoFuture
    /\ conn[c].type = "Connect"
    /\ conn[c].state = "NeedReply"
    /\ \E code \in Replies, addr \in Addresses :
           fut' = [fut EXCEPT ![c] = [addr |-> addr,
                                      op |-> "reply",
                                      pc |-> "write_to",
                                      reply |-> code,
                                      resp |-> Response_new(Succeeded, addr),
                                      stream |-> conn[c].stream]]
    /\ conn' = [conn EXCEPT ![c] = Moved]
    /\ UNCHANGED <<raw, result, sock, accepted>>

\* connect.reply(reply, addr): `self` moves into the future, which builds
\* the response.
reply(c) ==
    /\ fut[c] = NoFuture
    /\ conn[c].type = "Connect"
    /\ conn[c].state = "NeedReply"
    /\ \E code \in Replies, addr \in Addresses :
           fut' = [fut EXCEPT ![c] = [addr |-> addr,
                                      op |-> "reply",
                                      pc |-> "write_to",
                                      reply |-> code,
                                      resp |-> Response_new(code, addr),
                                      stream |-> conn[c].stream]]
    /\ conn' = [conn EXCEPT ![c] = Moved]
    /\ UNCHANGED <<raw, result, sock, accepted>>

\* Mutant of reply_write_to: the outcome of the write is ignored and the
\* stage is Ready either way.
reply_write_to_ignoring_error(c) ==
    /\ fut[c].op = "reply"
    /\ fut[c].pc = "write_to"
    /\ LET self == fut[c] IN
       \E ok \in WriteOutcomes(self.stream) :
           /\ Transport(self.stream, <<WriteEvent("reply", Response_bytes(self.resp), ok)>>)
           /\ ReturnOk(c, Connect_Ready_new(self.stream), [op |-> "reply", tag |-> "Ok"])
    /\ UNCHANGED accepted

\* Mutant of reply_write_to: the response is handed to the transport twice.
reply_write_to_twice(c) ==
    /\ fut[c].op = "reply"
    /\ fut[c].pc = "write_to"
    /\ LET self == fut[c] IN
       \E ok \in WriteOutcomes(self.stream) :
           /\ Transport(self.stream,
                        <<WriteEvent("reply", Response_bytes(self.resp), TRUE),
                          WriteEvent("reply", Response_bytes(self.resp), ok)>>)
           /\ IF ok
              THEN ReturnOk(c, Connect_Ready_new(self.stream), [op |-> "reply", tag |-> "Ok"])
              ELSE ReturnErr(c, "reply", IoError, self.stream)
    /\ UNCHANGED accepted

\* resp.write_to(&mut self.stream).await, then Connect<Ready> or the error.
reply_write_to(c) ==
    /\ fut[c].op = "reply"
    /\ fut[c].pc = "write_to"
    /\ LET self == fut[c] IN
       \E ok \in WriteOutcomes(self.stream) :
           /\ Transport(self.stream, <<WriteEvent("reply", Response_bytes(self.resp), ok)>>)
           /\ IF ok
              THEN ReturnOk(c, Connect_Ready_new(self.stream), [op |-> "reply", tag |-> "Ok"])
              ELSE ReturnErr(c, "reply", IoError, self.stream)
    /\ UNCHANGED accepted

(***************************************************************************)
(* The replies of Bind (two, in order) and of Associate (one), each written *)
(* and each failing as Connect's reply does.                               *)
(***************************************************************************)
\* wrapper.reply(reply, addr) of the stage `type` in the state `state`: `self`
\* moves into the future, which builds the response.
stage_reply(c, type, state, op) ==
    /\ fut[c] = NoFuture
    /\ conn[c].type = type
    /\ conn[c].state = state
    /\ \E code \in Replies, addr \in BoundAddresses :
           fut' = [fut EXCEPT ![c] = [addr |-> addr,
                                      op |-> op,
                                      pc |-> "write_to",
                                      reply |-> code,
                                      resp |-> Response_new(code, addr),
                                      stream |-> conn[c].stream]]
    /\ conn' = [conn EXCEPT ![c] = Moved]
    /\ UNCHANGED <<raw, result, sock, accepted>>

\* resp.write_to(&mut self.stream).await, then the stage's next state or the
\* error with the stream.
stage_reply_write_to(c, op, next) ==
    /\ fut[c].op = op
    /\ fut[c].pc = "write_to"
    /\ LET self == fut[c] IN
       \E ok \in WriteOutcomes(self.stream) :
           /\ Transport(self.stream, <<WriteEvent(op, Response_bytes(self.resp), ok)>>)
           /\ IF ok
              THEN ReturnOk(c, next, [op |-> op, tag |-> "Ok"])
              ELSE ReturnErr(c, op, IoError, self.stream)
    /\ UNCHANGED accepted

\* Mutant of Bind_first_reply_write_to: the first reply makes the stage Ready.
Bind_first_reply_to_Ready(c) ==
    stage_reply_write_to(c, "Bind<NeedFirstReply>::reply", Bind_Ready_new(fut[c].stream))

Bind_first_reply(c) ==
    stage_reply(c, "Bind", "NeedFirstReply", "Bind<NeedFirstReply>::reply")

Bind_first_reply_write_to(c) ==
    stage_reply_write_to(c, "Bind<NeedFirstReply>::reply",
                         Bind_NeedSecondReply_new(fut[c].stream))

Bind_second_reply(c) ==
    stage_reply(c, "Bind", "NeedSecondReply", "Bind<NeedSecondReply>::reply")

Bind_second_reply_write_to(c) ==
    stage_reply_write_to(c, "Bind<NeedSecondReply>::reply", Bind_Ready_new(fut[c].stream))

Associate_reply(c) ==
    stage_reply(c, "Associate", "NeedReply", "Associate<NeedReply>::reply")

Associate_reply_write_to(c) ==
    stage_reply_write_to(c, "Associate<NeedReply>::reply", Associate_Ready_new(fut[c].stream))

\* The reply operations.
ReplyOps ==
    {"reply", "Bind<NeedFirstReply>::reply", "Bind<NeedSecondReply>::reply",
     "Associate<NeedReply>::reply"}

(***************************************************************************)
(* What the caller does besides driving the pipeline.                      *)
(***************************************************************************)
PipelineOps == {"authenticate", "execute", "wait_request"} \cup ReplyOps

\* The events on socket h that no pipeline operation made.
CallerEvents(h) == { i \in 1..Len(sock[h].io) : sock[h].io[i].by \notin PipelineOps }

\* self.stream.shutdown().await
stream_shutdown(c, by) ==
    /\ fut[c] = NoFuture
    /\ Cardinality(CallerEvents(conn[c].stream)) < MaxCallerOps
    /\ \E ok \in BOOLEAN : Transport(conn[c].stream, <<ShutdownEvent(by, ok)>>)
    /\ UNCHANGED <<conn, fut, raw, result, accepted>>

IncomingConnection_shutdown(c) ==
    /\ conn[c].type = "IncomingConnection"
    /\ stream_shutdown(c, "IncomingConnection::shutdown")

Authenticated_shutdown(c) ==
    /\ conn[c].type = "Authenticated"
    /\ stream_shutdown(c, "Authenticated::shutdown")

Connect_shutdown(c) ==
    /\ conn[c].type = "Connect"
    /\ conn[c].state = "NeedReply"
    /\ stream_shutdown(c, "Connect<NeedReply>::shutdown")

\* Bind after its first reply, and Associate once Ready, which the caller
\* keeps only to half-close it.
Bind_shutdown(c) ==
    /\ conn[c].type = "Bind"
    /\ conn[c].state = "NeedSecondReply"
    /\ stream_shutdown(c, "Bind<NeedSecondReply>::shutdown")

Associate_shutdown(c) ==
    /\ conn[c].type = "Associate"
    /\ conn[c].state = "Ready"
    /\ stream_shutdown(c, "Associate<Ready>::shutdown")

\* A socket option was set.
SetOptionEvent(by) == [by |-> by, io |-> "setsockopt", ok |-> TRUE]

\* Mutant of stream_get: asking the socket consumes the wrapper.
stream_get_consuming(c) ==
    /\ fut[c] = NoFuture
    /\ conn' = [conn EXCEPT ![c] = Moved]
    /\ UNCHANGED <<fut, raw, result, sock, accepted>>

\* self.stream.local_addr(), peer_addr(), linger(), nodelay(), ttl(): the
\* socket is asked, through &self, and answers or fails.
stream_get(c) ==
    /\ fut[c] = NoFuture
    /\ UNCHANGED vars

\* self.stream.set_linger(dur), set_nodelay(nodelay), set_ttl(ttl): the option
\* is set on the socket, through &self, or the call fails and nothing is set.
stream_set(c, by) ==
    /\ fut[c] = NoFuture
    /\ Cardinality(CallerEvents(conn[c].stream)) < MaxCallerOps
    /\ \E ok \in BOOLEAN :
           Transport(conn[c].stream, IF ok THEN <<SetOptionEvent(by)>> ELSE <<>>)
    /\ UNCHANGED <<conn, fut, raw, result, accepted>>

IncomingConnection_local_addr(c) ==
    /\ conn[c].type = "IncomingConnection"
    /\ stream_get(c)

IncomingConnection_peer_addr(c) ==
    /\ conn[c].type = "IncomingConnection"
    /\ stream_get(c)

IncomingConnection_linger(c) ==
    /\ conn[c].type = "IncomingConnection"
    /\ stream_get(c)

IncomingConnection_nodelay(c) ==
    /\ conn[c].type = "IncomingConnection"
    /\ stream_get(c)

IncomingConnection_ttl(c) ==
    /\ conn[c].type = "IncomingConnection"
    /\ stream_get(c)

IncomingConnection_set_linger(c) ==
    /\ conn[c].type = "IncomingConnection"
    /\ stream_set(c, "IncomingConnection::set_linger")

IncomingConnection_set_nodelay(c) ==
    /\ conn[c].type = "IncomingConnection"
    /\ stream_set(c, "IncomingConnection::set_nodelay")

IncomingConnection_set_ttl(c) ==
    /\ conn[c].type = "IncomingConnection"
    /\ stream_set(c, "IncomingConnection::set_ttl")

Authenticated_local_addr(c) ==
    /\ conn[c].type = "Authenticated"
    /\ stream_get(c)

Authenticated_peer_addr(c) ==
    /\ conn[c].type = "Authenticated"
    /\ stream_get(c)

Authenticated_linger(c) ==
    /\ conn[c].type = "Authenticated"
    /\ stream_get(c)

Authenticated_nodelay(c) ==
    /\ conn[c].type = "Authenticated"
    /\ stream_get(c)

Authenticated_ttl(c) ==
    /\ conn[c].type = "Authenticated"
    /\ stream_get(c)

Authenticated_set_linger(c) ==
    /\ conn[c].type = "Authenticated"
    /\ stream_set(c, "Authenticated::set_linger")

Authenticated_set_nodelay(c) ==
    /\ conn[c].type = "Authenticated"
    /\ stream_set(c, "Authenticated::set_nodelay")

Authenticated_set_ttl(c) ==
    /\ conn[c].type = "Authenticated"
    /\ stream_set(c, "Authenticated::set_ttl")

Connect_local_addr(c) ==
    /\ conn[c].type = "Connect" /\ conn[c].state = "NeedReply"
    /\ stream_get(c)

Connect_peer_addr(c) ==
    /\ conn[c].type = "Connect" /\ conn[c].state = "NeedReply"
    /\ stream_get(c)

Connect_linger(c) ==
    /\ conn[c].type = "Connect" /\ conn[c].state = "NeedReply"
    /\ stream_get(c)

Connect_nodelay(c) ==
    /\ conn[c].type = "Connect" /\ conn[c].state = "NeedReply"
    /\ stream_get(c)

Connect_ttl(c) ==
    /\ conn[c].type = "Connect" /\ conn[c].state = "NeedReply"
    /\ stream_get(c)

Connect_set_linger(c) ==
    /\ conn[c].type = "Connect" /\ conn[c].state = "NeedReply"
    /\ stream_set(c, "Connect<NeedReply>::set_linger")

Connect_set_nodelay(c) ==
    /\ conn[c].type = "Connect" /\ conn[c].state = "NeedReply"
    /\ stream_set(c, "Connect<NeedReply>::set_nodelay")

Connect_set_ttl(c) ==
    /\ conn[c].type = "Connect" /\ conn[c].state = "NeedReply"
    /\ stream_set(c, "Connect<NeedReply>::set_ttl")

\* TcpStream::from(wrapper): the wrapper is consumed, the raw stream is out.
into_TcpStream(c) ==
    /\ fut[c] = NoFuture
    /\ raw' = [raw EXCEPT ![c] = @ \cup {conn[c].stream}]
    /\ conn' = [conn EXCEPT ![c] = Moved]
    /\ UNCHANGED <<fut, result, sock, accepted>>

From_IncomingConnection(c) ==
    /\ conn[c].type = "IncomingConnection"
    /\ into_TcpStream(c)

From_Authenticated(c) ==
    /\ conn[c].type = "Authenticated"
    /\ into_TcpStream(c)

\* impl<S> From<Connect<S>>: in NeedReply and in Ready alike.
From_Connect(c) ==
    /\ conn[c].type = "Connect"
    /\ into_TcpStream(c)

\* The stage is Connect<Ready>.
IsConnectReady(c) == conn[c].type = "Connect" /\ conn[c].state = "Ready"

\* Mutant of Ready_stream_op: the stream operations are there in every state
\* of Connect, NeedReply included.
Connect_stream_op_any_state(c, evs) ==
    /\ fut[c] = NoFuture
    /\ conn[c].type = "Connect"
    /\ Cardinality(CallerEvents(conn[c].stream)) < MaxCallerOps
    /\ Transport(conn[c].stream, evs)
    /\ UNCHANGED <<conn, fut, raw, result, accepted>>

\* Connect<Ready> as a stream: poll_read, poll_write, poll_flush and
\* poll_shutdown delegate to the stream.
Ready_stream_op(c, evs) ==
    /\ fut[c] = NoFuture
    /\ conn[c].type = "Connect"
    /\ conn[c].state = "Ready"
    /\ Cardinality(CallerEvents(conn[c].stream)) < MaxCallerOps
    /\ Transport(conn[c].stream, evs)
    /\ UNCHANGED <<conn, fut, raw, result, accepted>>

DataBytes == <<100>>

Ready_poll_read(c) ==
    Ready_stream_op(c, <<ReadEvent("Connect<Ready>", [kind |-> "data"], TRUE)>>)

\* Mutant of Ready_poll_write: the wrapper takes the bytes and reports them
\* written whatever the stream says.
Ready_poll_write_buffered(c) ==
    Ready_stream_op(c, <<WriteEvent("Connect<Ready>", DataBytes, TRUE)>>)

Ready_poll_write(c) ==
    /\ conn[c].type = "Connect"
    /\ \E ok \in WriteOutcomes(conn[c].stream) :
           Ready_stream_op(c, <<WriteEvent("Connect<Ready>", DataBytes, ok)>>)

Ready_poll_flush(c) ==
    Ready_stream_op(c, <<[by |-> "Connect<Ready>", io |-> "flush", ok |-> TRUE]>>)

Ready_poll_shutdown(c) ==
    \E ok \in BOOLEAN : Ready_stream_op(c, <<ShutdownEvent("Connect<Ready>", ok)>>)

\* The caller uses a raw TcpStream it owns as a plain stream.
TcpStream_op(c, h, evs) ==
    /\ h \in raw[c]
    /\ Cardinality(CallerEvents(h)) < MaxCallerOps
    /\ Transport(h, evs)
    /\ UNCHANGED <<conn, fut, raw, result, accepted>>

TcpStream_read(c) ==
    \E h \in raw[c] :
        TcpStream_op(c, h, <<ReadEvent("TcpStream", [kind |-> "data"], TRUE)>>)

TcpStream_write(c) ==
    \E h \in raw[c] : \E ok \in WriteOutcomes(h) :
        TcpStream_op(c, h, <<WriteEvent("TcpStream", DataBytes, ok)>>)

TcpStream_shutdown(c) ==
    \E h \in raw[c], ok \in BOOLEAN :
        TcpStream_op(c, h, <<ShutdownEvent("TcpStream", ok)>>)

(***************************************************************************)
(* The specification                                                       *)
(***************************************************************************)
Next ==
    \E c \in Conns :
        \/ authenticate(c)
        \/ authenticate_read_from(c)
        \/ authenticate_accept_write_to(c)
        \/ authenticate_execute(c)
        \/ authenticate_reject_write_to(c)
        \/ wait_request(c)
        \/ wait_request_read_from(c)
        \/ reply(c)
        \/ reply_write_to(c)
        \/ Bind_first_reply(c)
        \/ Bind_first_reply_write_to(c)
        \/ Bind_second_reply(c)
        \/ Bind_second_reply_write_to(c)
        \/ Associate_reply(c)
        \/ Associate_reply_write_to(c)
        \/ IncomingConnection_shutdown(c)
        \/ Authenticated_shutdown(c)
        \/ Connect_shutdown(c)
        \/ Bind_shutdown(c)
        \/ Associate_shutdown(c)
        \/ IncomingConnection_local_addr(c)
        \/ IncomingConnection_peer_addr(c)
        \/ IncomingConnection_linger(c)
        \/ IncomingConnection_nodelay(c)
        \/ IncomingConnection_ttl(c)
        \/ IncomingConnection_set_linger(c)
        \/ IncomingConnection_set_nodelay(c)
        \/ IncomingConnection_set_ttl(c)
        \/ Authenticated_local_addr(c)
        \/ Authenticated_peer_addr(c)
        \/ Authenticated_linger(c)
        \/ Authenticated_nodelay(c)
        \/ Authenticated_ttl(c)
        \/ Authenticated_set_linger(c)
        \/ Authenticated_set_nodelay(c)
        \/ Authenticated_set_ttl(c)
        \/ Connect_local_addr(c)
        \/ Connect_peer_addr(c)
        \/ Connect_linger(c)
        \/ Connect_nodelay(c)
        \/ Connect_ttl(c)
        \/ Connect_set_linger(c)
        \/ Connect_set_nodelay(c)
        \/ Connect_set_ttl(c)
        \/ From_IncomingConnection(c)
        \/ From_Authenticated(c)
        \/ From_Connect(c)
        \/ Ready_poll_read(c)
        \/ Ready_poll_write(c)
        \/ Ready_poll_flush(c)
        \/ Ready_poll_shutdown(c)
        \/ TcpStream_read(c)
        \/ TcpStream_write(c)
        \/ TcpStream_shutdown(c)

Spec == Init /\ [][Next]_vars

(***************************************************************************)
(* examples/simple_socks5.rs: a server without authentication whose handle *)
(* drives every accepted connection through the pipeline.                  *)
(***************************************************************************)
\* auth::NoAuth
NoAuth == [method |-> NONE]

\* main: the server is built with NoAuth, and accepts.
main ==
    /\ Init
    /\ \A c \in Conns : conn[c].auth = NoAuth

\* The replies sent on a socket, read back: the code of the first.
RepliedWith(h) ==
    Response_decode(SelectSeq(sock[h].io, LAMBDA e : e.by \in ReplyOps)[1].bytes).reply

\* Mutant of dial_reply: a failed dial is reported as a command not supported.
dial_reply_not_supported(dialed) == IF dialed THEN Succeeded ELSE CommandNotSupported

\* The reply to a Connect: Succeeded if TcpStream::connect gave a target,
\* HostUnreachable if not.
dial_reply(dialed) == IF dialed THEN Succeeded ELSE HostUnreachable

\* Err((conn, err)) of authenticate and of wait_request: the stream is shut
\* down, whatever comes of that, and handle returns the error.
handle_Err(c) ==
    /\ result[c].tag = "Err"
    /\ result[c].op \in {"authenticate", "wait_request"}
    /\ \A h \in raw[c] : CallerEvents(h) = {}
    /\ TcpStream_shutdown(c)

\* Ok(Command::Associate(associate, _)): associate.reply(CommandNotSupported, ..)
handle_Associate(c) ==
    /\ Associate_reply(c)
    /\ fut'[c].reply = CommandNotSupported
    /\ fut'[c].addr = Address_unspecified

handle_Associate_shutdown(c) ==
    /\ CallerEvents(accepted[c]) = {}
    /\ Associate_shutdown(c)

\* Ok(Command::Bind(bind, _)): bind.reply(CommandNotSupported, ..)
handle_Bind(c) ==
    /\ Bind_first_reply(c)
    /\ fut'[c].reply = CommandNotSupported
    /\ fut'[c].addr = Address_unspecified

handle_Bind_shutdown(c) ==
    /\ CallerEvents(accepted[c]) = {}
    /\ Bind_shutdown(c)

\* Ok(Command::Connect(connect, addr)): the target is dialed, and
\* connect.reply tells the client what came of it.
handle_Connect(c) ==
    \E dialed \in BOOLEAN :
        /\ reply(c)
        /\ fut'[c].reply = dial_reply(dialed)
        /\ fut'[c].addr = Address_unspecified

\* io::copy_bidirectional(&mut target, &mut conn), after Succeeded.
handle_copy_bidirectional(c) ==
    /\ IsConnectReady(c)
    /\ RepliedWith(accepted[c]) = Succeeded
    /\ \/ Ready_poll_read(c)
       \/ Ready_poll_write(c)
       \/ Ready_poll_flush(c)
       \/ Ready_poll_shutdown(c)

\* conn.shutdown() on the Connect<Ready>, after the failure reply.
handle_Connect_shutdown(c) ==
    /\ IsConnectReady(c)
    /\ RepliedWith(accepted[c]) # Succeeded
    /\ CallerEvents(accepted[c]) = {}
    /\ Ready_poll_shutdown(c)

\* handle(conn)
handle(c) ==
    \/ authenticate(c)
    \/ authenticate_read_from(c)
    \/ authenticate_accept_write_to(c)
    \/ authenticate_execute(c)
    \/ authenticate_reject_write_to(c)
    \/ wait_request(c)
    \/ wait_request_read_from(c)
    \/ handle_Err(c)
    \/ handle_Associate(c)
    \/ Associate_reply_write_to(c)
    \/ handle_Associate_shutdown(c)
    \/ handle_Bind(c)
    \/ Bind_first_reply_write_to(c)
    \/ handle_Bind_shutdown(c)
    \/ handle_Connect(c)
    \/ reply_write_to(c)
    \/ handle_copy_bidirectional(c)
    \/ handle_Connect_shutdown(c)

SpecExample == main /\ [][\E c \in Conns : handle(c)]_vars

(***************************************************************************)
(* A pipeline run: the caller calls each stage's operation on what the      *)
(* stage before returned, and every read, every write and the               *)
(* authenticator's execute complete.                                        *)
(***************************************************************************)
\* The caller calls the operation of the stage it holds.
Call(c) ==
    \/ authenticate(c)
    \/ wait_request(c)
    \/ reply(c)
    \/ Bind_first_reply(c)
    \/ Bind_second_reply(c)
    \/ Associate_reply(c)

\* An `.await` of the operation in progress completes.
Await(c) ==
    \/ authenticate_read_from(c)
    \/ authenticate_accept_write_to(c)
    \/ authenticate_execute(c)
    \/ authenticate_reject_write_to(c)
    \/ wait_request_read_from(c)
    \/ reply_write_to(c)
    \/ Bind_first_reply_write_to(c)
    \/ Bind_second_reply_write_to(c)
    \/ Associate_reply_write_to(c)

NextPipeline == \E c \in Conns : Call(c) \/ Await(c)

\* Every I/O and execute eventually complete, and the caller goes on.
PipelineFairness == \A c \in Conns : WF_vars(Await(c)) /\ WF_vars(Call(c))

SpecPipeline == Init /\ [][NextPipeline]_vars /\ PipelineFairness

(***************************************************************************)
(* Two connections: main accepts twice and spawns a task for each; the      *)
(* tasks share the authenticator and run their pipelines interleaved.       *)
(***************************************************************************)
TwoConns == {"c1", "c2"}

\* server.accept().await, twice: each connection has its own socket, and the
\* Arc of the one authenticator.
accept_twice ==
    /\ accepted = [c \in TwoConns |-> IF c = "c1" THEN "fd3" ELSE "fd4"]
    /\ \E auth \in AuthAdaptors :
           conn = [c \in TwoConns |-> IncomingConnection_new(accepted[c], auth)]
    /\ fut = [c \in TwoConns |-> NoFuture]
    /\ raw = [c \in TwoConns |-> {}]
    /\ result = [c \in TwoConns |-> NoResult]
    /\ sock = [h \in Handles |-> [io |-> <<>>, wr_shutdown |-> FALSE]]

\* A step of the task of connection c: a call or an `.await` of its pipeline,
\* every reply made with Address::unspecified(), as handle makes each of its.
task(c) ==
    \/ /\ Call(c)
       /\ fut'[c].op \in ReplyOps => fut'[c].addr = Address_unspecified
    \/ Await(c)

\* tokio::spawn: a step of either task, in any order.
spawned == \E c \in TwoConns : task(c)

SpecTwoConns == accept_twice /\ [][spawned]_vars

(***************************************************************************)
(* Properties                                                              *)
(***************************************************************************)
\* How many of the caller's bindings and futures of connection c hold handle h.
Holders(c, h) ==
      (IF conn[c].type # "None" /\ conn[c].stream = h THEN 1 ELSE 0)
    + (IF fut[c].op # "none" /\ fut[c].stream = h THEN 1 ELSE 0)
    + (IF h \in raw[c] THEN 1 ELSE 0)

\* The step on which the operation in flight on c returns.
Returns(c) == fut[c] # NoFuture /\ fut'[c] = NoFuture

\* C1 (state part): the accepted transport has exactly one owner, and no
\* other socket is owned or touched.
C1_OneOwner ==
    \A c \in Conns : \A h \in Handles :
        /\ Holders(c, h) = IF h = accepted[c] THEN 1 ELSE 0
        /\ h # accepted[c] => sock[h].io = <<>>

\* C1 (step part): an operation returns either a success value wrapping the
\* transport it was given, or an error with that same transport, never both.
C1_OneOutcome ==
    \A c \in Conns :
        Returns(c) =>
            /\ fut[c].stream = accepted[c]
            /\ \/ /\ result'[c].tag = "Ok"
                  /\ conn'[c].type # "None"
                  /\ conn'[c].stream = fut[c].stream
                  /\ raw'[c] = {}
               \/ /\ result'[c].tag = "Err"
                  /\ conn'[c] = Moved
                  /\ raw'[c] = {fut[c].stream}

\* C1: transport conservation: every outcome of authenticate, wait_request and
\* reply is exactly one of a success value wrapping the transport or an error
\* paired with the very transport supplied, and in every reachable state the
\* transport has exactly one owner.
C1_TransportConservation == []C1_OneOwner /\ [][C1_OneOutcome]_vars

\* C1 witness: each of the three operations has failed and handed the
\* accepted transport back; here the reply.
C1_Witness ==
    \E c \in Conns :
        /\ result[c].tag = "Err"
        /\ result[c].op = "reply"
        /\ raw[c] = {accepted[c]}
        /\ conn[c] = Moved

\* The handshake responses authenticate has put on socket h, in order.
HandshakeWrites(io) == SelectSeq(io, LAMBDA e : e.by = "authenticate" /\ e.io = "write")

\* authenticate returns on this step, having read a request that offers the
\* configured method.
ReturnsOffered(c) ==
    /\ Returns(c)
    /\ fut[c].op = "authenticate"
    /\ fut[c].pc # "read_from"
    /\ contains(fut[c].req.methods, as_handshake_method(fut[c].auth))

\* C2 as stated: whenever the request read offers the configured method,
\* authenticate returns Ok with an Authenticated, and the response written
\* names that method.
C2_Original ==
    [][\A c \in Conns :
          ReturnsOffered(c) =>
              LET w == HandshakeWrites(sock'[fut[c].stream].io) IN
              /\ result'[c].tag = "Ok"
              /\ conn'[c].type = "Authenticated"
              /\ Len(w) = 1
              /\ w[1].ok
              /\ HandshakeResponse_decode(w[1].bytes).method = as_handshake_method(fut[c].auth)
      ]_vars

\* C2 amended: whenever the request read offers the configured method,
\* authenticate writes exactly one handshake response, naming exactly that
\* method; it returns Ok with an Authenticated and the authenticator's output
\* if that write succeeded, and Error::Io with the transport if it failed.
C2_AcceptedHandshake ==
    [][\A c \in Conns :
          ReturnsOffered(c) =>
              LET w == HandshakeWrites(sock'[fut[c].stream].io) IN
              /\ Len(w) = 1
              /\ HandshakeResponse_decode(w[1].bytes).method = as_handshake_method(fut[c].auth)
              /\ IF w[1].ok
                 THEN /\ result'[c].tag = "Ok"
                      /\ result'[c].output \in {"()", "Ok(true)", "Ok(false)", "Err"}
                      /\ conn'[c] = Authenticated_new(fut[c].stream)
                 ELSE /\ result'[c] = [err |-> Error_Io, op |-> "authenticate", tag |-> "Err"]
                      /\ raw'[c] = {fut[c].stream}
      ]_vars

\* C2 witness: a password-configured server has accepted a client that offered
\* GSSAPI and the password method, and answered with the password method.
C2_Witness ==
    \E c \in Conns :
        /\ result[c].tag = "Ok"
        /\ result[c].op = "authenticate"
        /\ conn[c].type = "Authenticated"
        /\ HandshakeWrites(sock[accepted[c]].io) =
               <<WriteEvent("authenticate", <<SOCKS_VERSION, PASSWORD>>, TRUE)>>

\* authenticate returns on this step, having read a request that does not
\* offer the configured method.
ReturnsNotOffered(c) ==
    /\ Returns(c)
    /\ fut[c].op = "authenticate"
    /\ fut[c].pc # "read_from"
    /\ ~contains(fut[c].req.methods, as_handshake_method(fut[c].auth))

\* The protocol error a rejected handshake is to end with.
RejectionOf(c) ==
    [err |-> Error_Protocol(NoAcceptableHandshakeMethod(
                 SOCKS_VERSION, as_handshake_method(fut[c].auth), fut[c].req.methods)),
     op |-> "authenticate",
     tag |-> "Err"]

\* C3 as stated: whenever the request read excludes the configured method,
\* authenticate fails with NoAcceptableHandshakeMethod carrying the configured
\* method and all the offered methods, the response on the wire names
\* UNACCEPTABLE, the transport is returned and no Authenticated is produced.
C3_Original ==
    [][\A c \in Conns :
          ReturnsNotOffered(c) =>
              LET w == HandshakeWrites(sock'[fut[c].stream].io) IN
              /\ result'[c] = RejectionOf(c)
              /\ Len(w) = 1
              /\ w[1].ok
              /\ HandshakeResponse_decode(w[1].bytes).method = UNACCEPTABLE
              /\ raw'[c] = {fut[c].stream}
              /\ conn'[c] = Moved
      ]_vars

\* C3 amended: whenever the request read excludes the configured method,
\* authenticate writes exactly one handshake response, naming UNACCEPTABLE, and
\* fails: with NoAcceptableHandshakeMethod carrying the configured method and
\* all the offered methods if that write succeeded, with Error::Io if it
\* failed; either way the transport is returned and no Authenticated is produced.
C3_RejectedHandshake ==
    [][\A c \in Conns :
          ReturnsNotOffered(c) =>
              LET w == HandshakeWrites(sock'[fut[c].stream].io) IN
              /\ Len(w) = 1
              /\ HandshakeResponse_decode(w[1].bytes).method = UNACCEPTABLE
              /\ result'[c] = IF w[1].ok
                              THEN RejectionOf(c)
                              ELSE [err |-> Error_Io, op |-> "authenticate", tag |-> "Err"]
              /\ raw'[c] = {fut[c].stream}
              /\ fut[c].stream = accepted[c]
              /\ conn'[c] = Moved
      ]_vars

\* C3 witness: a client that offered GSSAPI alone to a no-authentication server
\* has been answered UNACCEPTABLE and the caller has the error and the transport.
C3_Witness ==
    \E c \in Conns :
        /\ result[c] = [err |-> Error_Protocol(NoAcceptableHandshakeMethod(
                                    SOCKS_VERSION, NONE, <<GSSAPI>>)),
                        op |-> "authenticate",
                        tag |-> "Err"]
        /\ HandshakeWrites(sock[accepted[c]].io) =
               <<WriteEvent("authenticate", <<SOCKS_VERSION, UNACCEPTABLE>>, TRUE)>>
        /\ raw[c] = {accepted[c]}
        /\ conn[c] = Moved

\* The last thing socket h has seen.
LastEvent(h) == sock[h].io[Len(sock[h].io)]

\* The caller holds the error of a rejected handshake.
RejectionRaised(c) ==
    /\ result[c].tag = "Err"
    /\ result[c].op = "authenticate"
    /\ result[c].err.kind = "Protocol"
    /\ result[c].err.error.name = "NoAcceptableHandshakeMethod"

\* C4 as stated: authenticate returns no error for a rejected handshake until
\* the "method unacceptable" response has been written out to the client.
C4_Original ==
    [][\A c \in Conns :
          (ReturnsNotOffered(c) /\ result'[c].tag = "Err") =>
              \E i \in 1..Len(sock'[fut[c].stream].io) :
                  LET e == sock'[fut[c].stream].io[i] IN
                  /\ e.by = "authenticate"
                  /\ e.io = "write"
                  /\ e.ok
                  /\ HandshakeResponse_decode(e.bytes).method = UNACCEPTABLE
      ]_vars

\* C4 (state part): while the rejection response is still to be written the
\* caller has neither an error nor the transport; and once the caller holds
\* the NoAcceptableHandshakeMethod error, the socket has seen the successful
\* write of the "method unacceptable" response, after the handshake read.
C4_WrittenBeforeRaised ==
    \A c \in Conns :
        /\ (fut[c].op = "authenticate" /\ fut[c].pc = "reject_write_to") =>
               /\ result[c] = NoResult
               /\ raw[c] = {}
               /\ HandshakeWrites(sock[fut[c].stream].io) = <<>>
        /\ RejectionRaised(c) =>
               LET io == sock[accepted[c]].io
                   w == HandshakeWrites(io)
               IN  /\ w = <<WriteEvent("authenticate", <<SOCKS_VERSION, UNACCEPTABLE>>, TRUE)>>
                   /\ \E i \in 1..Len(io) : \E j \in (i + 1)..Len(io) :
                          /\ io[i] = ReadEvent("authenticate", [kind |-> "HandshakeRequest"], TRUE)
                          /\ io[j] = w[1]

\* C4 (step part): authenticate never returns from a rejected handshake before
\* its write of the rejection response has ended, and when that write failed
\* the error it returns is the write's I/O error.
C4_ReturnsAfterWrite ==
    \A c \in Conns :
        ReturnsNotOffered(c) =>
            LET w == HandshakeWrites(sock'[fut[c].stream].io) IN
            /\ HandshakeWrites(sock[fut[c].stream].io) = <<>>
            /\ Len(w) = 1
            /\ HandshakeResponse_decode(w[1].bytes).method = UNACCEPTABLE
            /\ (~w[1].ok) => result'[c].err = Error_Io
            /\ w[1].ok => result'[c].err.kind = "Protocol"

\* C4 amended: authenticate does not return the NoAcceptableHandshakeMethod
\* error until the "method unacceptable" response has been written out; it
\* never returns from a rejected handshake before that write has ended, and
\* if the write fails it returns the write's I/O error instead.
C4_RejectionOrder == []C4_WrittenBeforeRaised /\ [][C4_ReturnsAfterWrite]_vars

\* C4 witness: a password-only server has rejected a client that offered only
\* no-authentication, the response written before the error was raised.
C4_Witness ==
    \E c \in Conns :
        /\ RejectionRaised(c)
        /\ result[c].err.error.chosen_method = PASSWORD
        /\ result[c].err.error.methods = <<NONE>>
        /\ LastEvent(accepted[c]) =
               WriteEvent("authenticate", <<SOCKS_VERSION, UNACCEPTABLE>>, TRUE)

\* The reply-pending state a command stage starts in.
InitialReplyState(kind) == IF kind = "Bind" THEN "NeedFirstReply" ELSE "NeedReply"

\* C5: when wait_request's read of the request succeeds, it returns the Command
\* variant of the request's command kind, wrapping the same transport in that
\* command's initial reply-pending state, with the address of the request.
C5_Dispatch ==
    [][\A c \in Conns :
          (Returns(c) /\ fut[c].op = "wait_request") =>
              LET h == fut[c].stream
                  read == sock'[h].io[Len(sock'[h].io)]
              IN  /\ Len(sock'[h].io) = Len(sock[h].io) + 1
                  /\ read.by = "wait_request"
                  /\ read.io = "read"
                  /\ read.ok =>
                         /\ result'[c] = [address |-> read.msg.address,
                                          command |-> read.msg.command,
                                          op |-> "wait_request",
                                          tag |-> "Ok"]
                         /\ conn'[c] = [state |-> InitialReplyState(read.msg.command),
                                        stream |-> h,
                                        type |-> read.msg.command]
                         /\ h = accepted[c]
                         /\ raw'[c] = {}
      ]_vars

\* C5 witness: a BIND request for a domain address has been dispatched to
\* Bind<NeedFirstReply> with that address.
C5_Witness ==
    \E c \in Conns :
        /\ conn[c] = [state |-> "NeedFirstReply", stream |-> accepted[c], type |-> "Bind"]
        /\ result[c] = [address |-> [domain |-> <<97, 46, 98>>,
                                     port |-> 80,
                                     type |-> "DomainAddress"],
                        command |-> "Bind",
                        op |-> "wait_request",
                        tag |-> "Ok"]

\* C6: reply(code, addr) writes one response, the one carrying the given code
\* and address; it returns the same transport as Connect<Ready> if the write
\* succeeded, and the write error with the raw transport, and no
\* Connect<Ready>, if it failed.
C6_Reply ==
    [][\A c \in Conns :
          (Returns(c) /\ fut[c].op = "reply") =>
              LET h == fut[c].stream
                  written == sock'[h].io[Len(sock'[h].io)]
              IN  /\ sock'[h].io = Append(sock[h].io, written)
                  /\ written.by = "reply"
                  /\ written.io = "write"
                  /\ written.bytes =
                         Response_bytes([address |-> fut[c].addr, reply |-> fut[c].reply])
                  /\ IF written.ok
                     THEN /\ result'[c] = [op |-> "reply", tag |-> "Ok"]
                          /\ conn'[c] = [state |-> "Ready", stream |-> h, type |-> "Connect"]
                          /\ raw'[c] = {}
                     ELSE /\ result'[c] = [err |-> IoError, op |-> "reply", tag |-> "Err"]
                          /\ raw'[c] = {h}
                          /\ conn'[c] = Moved
      ]_vars

\* C6 witness: the write of a HostUnreachable reply has failed, and the caller
\* holds the error and the raw transport, and no Connect.
C6_Witness ==
    \E c \in Conns :
        /\ result[c] = [err |-> IoError, op |-> "reply", tag |-> "Err"]
        /\ LastEvent(accepted[c]) =
               WriteEvent("reply",
                          Response_bytes(Response_new(HostUnreachable, Address_unspecified)),
                          FALSE)
        /\ raw[c] = {accepted[c]}
        /\ conn[c] = Moved

\* The step on which reply hands its response to the transport, and the
\* bytes it hands over.
ReplyWrites(c) == fut[c].op = "reply" /\ fut'[c] = NoFuture

ReplyWritten(c) == sock'[fut[c].stream].io[Len(sock'[fut[c].stream].io)].bytes

\* An address the address field of the wire format can carry: the length of a
\* domain name fits its one length octet.
Carried(addr) == addr.type = "DomainAddress" => Len(addr.domain) < ByteRange

ReplyEvents(h) == SelectSeq(sock[h].io, LAMBDA e : e.by = "reply")

IsReady(c) == conn[c].type = "Connect" /\ conn[c].state = "Ready"

\* C8 (state part): no socket has been handed more than one Connect reply, a
\* Ready stage has had its one reply written, and in Ready reply is not enabled.
C8_OneReply ==
    /\ \A h \in Handles : Len(ReplyEvents(h)) <= 1
    /\ \A c \in Conns :
           IsReady(c) =>
               /\ ReplyEvents(conn[c].stream) # <<>>
               /\ ReplyEvents(conn[c].stream)[1].ok
               /\ ~ENABLED reply(c)

\* C8 (step part): from Ready no step starts a reply or writes one.
C8_NoReplyFromReady ==
    \A c \in Conns :
        IsReady(c) =>
            /\ fut'[c] = NoFuture
            /\ \A h \in Handles :
                   SelectSeq(sock'[h].io, LAMBDA e : e.by = "reply") = ReplyEvents(h)

\* C8: once a Connect stage is Ready no operation can trigger a second reply:
\* over any sequence of operations on a connection at most one Connect reply
\* is written by the pipeline, and reply is not enabled in Ready.
C8_NoSecondReply == []C8_OneReply /\ [][C8_NoReplyFromReady]_vars

\* C8 witness: the stage is Ready, the caller has used it as a stream since,
\* and the one reply is all the pipeline has written as a reply.
C8_Witness ==
    \E c \in Conns :
        /\ IsReady(c)
        /\ LastEvent(accepted[c]).by = "Connect<Ready>"
        /\ Len(ReplyEvents(accepted[c])) = 1

\* What socket h sees on this step, if anything.
Seen(h) == SubSeq(sock'[h].io, Len(sock[h].io) + 1, Len(sock'[h].io))

\* The socket is used as a plain stream on this step: by the caller on a raw
\* TcpStream, or through Connect<Ready>.
UsedAsStream(h) ==
    \E i \in 1..Len(Seen(h)) : Seen(h)[i].by \in {"TcpStream", "Connect<Ready>"}

UsedThroughWrapper(h) ==
    \E i \in 1..Len(Seen(h)) : Seen(h)[i].by = "Connect<Ready>"

UsedRaw(h) ==
    \E i \in 1..Len(Seen(h)) : Seen(h)[i].by = "TcpStream"

\* The reply has been sent on socket h.
ReplySent(h) == \E i \in 1..Len(sock[h].io) : sock[h].io[i].by = "reply" /\ sock[h].io[i].ok

\* A request is read only by a wait_request that followed a successful
\* authenticate, and a reply is written only by a reply that followed a
\* successful wait_request.
StagesInOrder(c) ==
    /\ (fut'[c].op = "wait_request" /\ fut[c] = NoFuture) =>
           /\ result[c].tag = "Ok"
           /\ result[c].op = "authenticate"
    /\ (fut'[c].op = "reply" /\ fut[c] = NoFuture) =>
           /\ result[c].tag = "Ok"
           /\ result[c].op = "wait_request"
           /\ result[c].command = "Connect"
    /\ \A h \in Handles : \A i \in 1..Len(Seen(h)) :
           /\ (Seen(h)[i].io = "read" /\ Seen(h)[i].msg.kind = "Request") =>
                  fut[c].op = "wait_request" /\ fut[c].stream = h
           /\ Seen(h)[i].by = "reply" =>
                  fut[c].op = "reply" /\ fut[c].stream = h

\* C9 as stated: a request is read only after authenticate succeeded, a reply
\* is written only after wait_request succeeded, and the caller cannot use the
\* transport as a plain stream before the reply has been sent, the conversions
\* of the stage wrappers to the raw transport included.
C9_Original ==
    [][\A c \in Conns :
          /\ StagesInOrder(c)
          /\ \A h \in Handles : UsedAsStream(h) => ReplySent(h)
      ]_vars

\* C9 amended: a request is read only after authenticate succeeded, a reply is
\* written only after wait_request succeeded, and through a stage wrapper the
\* transport is a plain stream only once the reply has been sent.  The raw
\* transport, which every stage wrapper converts to and every error carries,
\* is a plain stream before any reply; the caller has it only with the
\* wrapper consumed, and no pipeline operation follows on that connection.
C9_StageOrder ==
    [][\A c \in Conns :
          /\ StagesInOrder(c)
          /\ \A h \in Handles :
                 /\ UsedThroughWrapper(h) => ReplySent(h) /\ IsReady(c) /\ conn[c].stream = h
                 /\ UsedRaw(h) => h \in raw[c] /\ conn[c] = Moved
          /\ raw[c] # {} =>
                 /\ fut'[c] = NoFuture
                 /\ conn'[c] = Moved
                 /\ \A h \in Handles : \A i \in 1..Len(Seen(h)) : Seen(h)[i].by = "TcpStream"
      ]_vars

\* C9 witness: the caller has converted a Connect<NeedReply> to the raw
\* transport and used it as a plain stream, no reply having been written.
C9_Witness ==
    \E c \in Conns :
        /\ result[c].tag = "Ok"
        /\ result[c].op = "wait_request"
        /\ result[c].command = "Connect"
        /\ conn[c] = Moved
        /\ raw[c] = {accepted[c]}
        /\ LastEvent(accepted[c]).by = "TcpStream"
        /\ ReplyEvents(accepted[c]) = <<>>

\* The calls by which the caller asks for a half-close.
ShutdownCalls ==
    {"IncomingConnection::shutdown", "Authenticated::shutdown",
     "Connect<NeedReply>::shutdown", "Connect<Ready>", "TcpStream",
     "Bind<NeedSecondReply>::shutdown", "Associate<Ready>::shutdown"}

\* C10 (state part): every half-close a socket has seen was asked for by the
\* caller, and a socket whose write half is closed has seen such a call
\* succeed; while an operation of the pipeline is in flight, or has just
\* failed, the socket is as open as the caller left it.
C10_ClosedByCallerOnly ==
    \A h \in Handles :
        /\ \A i \in 1..Len(sock[h].io) :
               sock[h].io[i].io = "shutdown" => sock[h].io[i].by \in ShutdownCalls
        /\ sock[h].wr_shutdown =>
               \E i \in 1..Len(sock[h].io) :
                   /\ sock[h].io[i].io = "shutdown"
                   /\ sock[h].io[i].ok
                   /\ sock[h].io[i].by \in ShutdownCalls

\* C10 (step part): no step of authenticate, wait_request or reply, whether it
\* goes on, succeeds or fails, closes or half-closes a socket.
C10_PipelineLeavesOpen ==
    \A c \in Conns :
        fut[c] # NoFuture =>
            \A h \in Handles :
                /\ sock'[h].wr_shutdown = sock[h].wr_shutdown
                /\ \A i \in 1..Len(Seen(h)) : Seen(h)[i].io # "shutdown"

\* C10: the pipeline never closes the transport on its own: none of
\* authenticate, wait_request and reply closes or half-closes it, on success
\* or on any failure path; it is shut down only when the caller calls shutdown.
C10_NeverClosesTransport == []C10_ClosedByCallerOnly /\ [][C10_PipelineLeavesOpen]_vars

\* C10 witness: the request was invalid, wait_request has returned the error
\* and the transport, and the transport is still open in both directions.
C10_Witness ==
    \E c \in Conns :
        /\ result[c].tag = "Err"
        /\ result[c].op = "wait_request"
        /\ result[c].err = Error_Protocol([name |-> "InvalidCommand"])
        /\ raw[c] = {accepted[c]}
        /\ ~sock[accepted[c]].wr_shutdown
        /\ \A i \in 1..Len(sock[accepted[c]].io) : sock[accepted[c]].io[i].io # "shutdown"

\* The operations of the pipeline's own stages; execute is the authenticator's.
StageOps == PipelineOps \ {"execute"}

\* The reads or writes (kind) that operation op has made on a socket.
StageEvents(io, op, kind) == SelectSeq(io, LAMBDA e : e.by = op /\ e.io = kind)

\* C11 (state part): no socket has seen more than one handshake read, one
\* handshake response write, one request read or one reply write, and a failed
\* read or write of a stage operation is the last thing the pipeline did on
\* that socket.
C11_AtMostOnce ==
    \A h \in Handles :
        LET io == sock[h].io IN
        /\ Len(StageEvents(io, "authenticate", "read")) <= 1
        /\ Len(StageEvents(io, "authenticate", "write")) <= 1
        /\ Len(StageEvents(io, "wait_request", "read")) <= 1
        /\ Len(StageEvents(io, "reply", "write")) <= 1
        /\ \A i \in 1..Len(io) :
               (io[i].by \in StageOps /\ ~io[i].ok) =>
                   \A j \in (i + 1)..Len(io) : io[j].by \notin PipelineOps

\* C11 (step part): the step on which a read or write of a stage operation
\* fails is the step on which that operation returns the error and the
\* transport, nothing else having been done on the socket.
C11_FailureSurfaced ==
    \A c \in Conns :
        LET seen == Seen(accepted[c]) IN
        \A i \in 1..Len(seen) :
            (seen[i].by \in StageOps /\ ~seen[i].ok) =>
                /\ Len(seen) = 1
                /\ Returns(c)
                /\ result'[c].tag = "Err"
                /\ result'[c].op = fut[c].op
                /\ raw'[c] = {accepted[c]}

\* C11: no retries, failures surfaced immediately: each stage operation attempts
\* each of its reads and writes at most once, and after the first I/O failure
\* of an operation the pipeline does no further read or write on the transport
\* before the error and the transport are returned; a failed handshake read
\* writes no response.
C11_NoRetries == []C11_AtMostOnce /\ [][C11_FailureSurfaced]_vars

\* C11 witness: the handshake read has failed; it is all the socket has seen,
\* and the caller holds the error and the transport.
C11_Witness ==
    \E c \in Conns :
        /\ sock[accepted[c]].io =
               <<ReadEvent("authenticate", [kind |-> "HandshakeRequest"], FALSE)>>
        /\ result[c].tag = "Err"
        /\ result[c].op = "authenticate"
        /\ raw[c] = {accepted[c]}

\* Everything handed to a socket to be sent to the client, in order.
Writes(io) == SelectSeq(io, LAMBDA e : e.io = "write")

\* The command stages.
CommandStages == {"Associate", "Bind", "Connect"}

\* C12: wait_request never writes to the transport: from its call to its
\* return, on success and on failure alike, what has been sent to the client is
\* unchanged and the one thing the socket sees is the read of the request; on a
\* malformed request it returns the error with the transport and no command
\* stage is entered.
C12_WaitRequestWritesNothing ==
    [][\A c \in Conns :
          (fut[c].op = "wait_request" \/ fut'[c].op = "wait_request") =>
              /\ \A h \in Handles :
                     /\ Writes(sock'[h].io) = Writes(sock[h].io)
                     /\ \A i \in 1..Len(Seen(h)) :
                            /\ Seen(h)[i].by = "wait_request"
                            /\ Seen(h)[i].io = "read"
                            /\ h = fut[c].stream
              /\ Returns(c) =>
                     LET read == Seen(fut[c].stream)[1] IN
                     /\ Len(Seen(fut[c].stream)) = 1
                     /\ read.ok => conn'[c].type \in CommandStages
                     /\ ~read.ok =>
                            /\ result'[c].tag = "Err"
                            /\ result'[c].op = "wait_request"
                            /\ result'[c].err \in RequestReadErrors
                            /\ raw'[c] = {fut[c].stream}
                            /\ conn'[c] = Moved
      ]_vars

\* C12 witness: a request of another protocol version has been turned down;
\* the caller holds the error and the transport, and all that was ever sent
\* to the client is the handshake response.
C12_Witness ==
    \E c \in Conns :
        /\ result[c] = [err |-> Error_Protocol([name |-> "ProtocolVersion"]),
                        op |-> "wait_request",
                        tag |-> "Err"]
        /\ Writes(sock[accepted[c]].io) =
               <<WriteEvent("authenticate", <<SOCKS_VERSION, NONE>>, TRUE)>>
        /\ raw[c] = {accepted[c]}
        /\ conn[c] = Moved

\* All that operation op has done on a socket, in order.
EventsBy(io, op) == SelectSeq(io, LAMBDA e : e.by = op)

\* C13 as stated: each of authenticate, wait_request and reply has, when it
\* returns, read exactly one message and then written at most one.
C13_Original ==
    [][\A c \in Conns :
          Returns(c) =>
              LET ev == EventsBy(sock'[fut[c].stream].io, fut[c].op) IN
              /\ Len(ev) \in {1, 2}
              /\ ev[1].io = "read"
              /\ Len(ev) = 2 => ev[2].io = "write"
      ]_vars

\* C13 amended: each arrow makes at most one round trip of its own against
\* the transport.  authenticate reads exactly one handshake request and, if
\* that read succeeded, then writes exactly one handshake response;
\* wait_request reads exactly one request and writes nothing; reply reads
\* nothing and writes exactly one response.
C13_RoundTrips ==
    [][\A c \in Conns :
          Returns(c) =>
              LET ev == EventsBy(sock'[fut[c].stream].io, fut[c].op) IN
              CASE fut[c].op = "authenticate" ->
                       /\ Len(ev) = IF ev[1].ok THEN 2 ELSE 1
                       /\ ev[1].io = "read"
                       /\ ev[1].msg.kind = "HandshakeRequest"
                       /\ Len(ev) = 2 => ev[2].io = "write"
                [] fut[c].op = "wait_request" ->
                       /\ Len(ev) = 1
                       /\ ev[1].io = "read"
                       /\ ev[1].msg.kind = "Request"
                [] fut[c].op \in ReplyOps ->
                       /\ Len(ev) = 1
                       /\ ev[1].io = "write"
      ]_vars

\* C13 witness: the three arrows have run: authenticate has read and written,
\* wait_request has read, and reply has written and read nothing.
C13_Witness ==
    \E c \in Conns :
        LET io == sock[accepted[c]].io IN
        /\ result[c] = [op |-> "reply", tag |-> "Ok"]
        /\ Len(EventsBy(io, "authenticate")) = 2
        /\ Len(EventsBy(io, "wait_request")) = 1
        /\ Len(EventsBy(io, "reply")) = 1
        /\ StageEvents(io, "reply", "read") = <<>>

\* What the client can observe of a socket: what was sent to it and the
\* half-closes, in order.
WireOutput(io) == SelectSeq(io, LAMBDA e : e.io \in {"write", "shutdown"})

\* The request read on the socket of c, if one was read.
RequestRead(c) ==
    SelectSeq(sock[accepted[c]].io, LAMBDA e : e.by = "wait_request" /\ e.ok)

\* handle has run to its end on a CONNECT to a domain address whose dial
\* failed: the reply sent is not Succeeded.
ConnectDialFailed(c) ==
    /\ ~ENABLED handle(c)
    /\ RequestRead(c) # <<>>
    /\ RequestRead(c)[1].msg.command = "Connect"
    /\ RequestRead(c)[1].msg.address.type = "DomainAddress"
    /\ ReplyEvents(accepted[c]) # <<>>
    /\ RepliedWith(accepted[c]) # Succeeded

\* The handshake success response and the CONNECT failure response.
HandshakeSuccessResponse == WriteEvent("authenticate", <<SOCKS_VERSION, NONE>>, TRUE)

ConnectFailureResponse ==
    WriteEvent("reply", Response_bytes(Response_new(HostUnreachable, Address_unspecified)), TRUE)

ExecuteInvoked(c) ==
    /\ fut[c].op = "authenticate"
    /\ fut[c].pc = "execute"
    /\ fut'[c] # fut[c]

\* C15 (state part): whatever execute has done on a socket comes after the
\* successful write of a handshake response that names an acceptable method,
\* and after no failed read or write of authenticate.
C15_ExecuteAfterResponse ==
    \A h \in Handles :
        LET io == sock[h].io IN
        \A i \in 1..Len(io) :
            io[i].by = "execute" =>
                /\ \E j \in 1..(i - 1) :
                       /\ io[j].by = "authenticate"
                       /\ io[j].io = "write"
                       /\ io[j].ok
                       /\ HandshakeResponse_decode(io[j].bytes).method # UNACCEPTABLE
                /\ \A j \in 1..(i - 1) : io[j].by = "authenticate" => io[j].ok

\* C15 (step part): execute is invoked right after the successful write of the
\* response naming the chosen method, which the client offered; the step that
\* invokes it is the step on which authenticate returns Ok, so it is invoked
\* once for each success; and an authenticate that returns from anywhere else
\* (read failed, write failed, method not offered) returns an error, execute
\* not having touched the socket.
C15_ExecuteOncePerSuccess ==
    \A c \in Conns :
        /\ ExecuteInvoked(c) =>
               /\ LastEvent(fut[c].stream) =
                      WriteEvent("authenticate",
                                 <<SOCKS_VERSION, as_handshake_method(fut[c].auth)>>, TRUE)
               /\ contains(fut[c].req.methods, as_handshake_method(fut[c].auth))
               /\ Returns(c)
               /\ result'[c].tag = "Ok"
               /\ conn'[c] = Authenticated_new(fut[c].stream)
        /\ (Returns(c) /\ fut[c].op = "authenticate" /\ result'[c].tag = "Ok") =>
               ExecuteInvoked(c)
        /\ (Returns(c) /\ fut[c].op = "authenticate" /\ ~ExecuteInvoked(c)) =>
               /\ result'[c].tag = "Err"
               /\ EventsBy(sock'[fut[c].stream].io, "execute") = <<>>
        /\ \A h \in Handles : \A i \in 1..Len(Seen(h)) :
               Seen(h)[i].by = "execute" => ExecuteInvoked(c) /\ fut[c].stream = h

\* C15: the authenticator's execute is invoked only after the handshake
\* response naming the chosen method has been written successfully, exactly
\* once per successful authenticate, and never when the handshake read failed,
\* the response write failed, or the client's methods exclude the chosen method.
C15_ExecuteOnlyAfterAccept == []C15_ExecuteAfterResponse /\ [][C15_ExecuteOncePerSuccess]_vars

\* C15 witness: a password server has answered with the password method and
\* execute has then run its sub-negotiation on the socket.
C15_Witness ==
    \E c \in Conns :
        /\ result[c] = [op |-> "authenticate", output |-> "Ok(true)", tag |-> "Ok"]
        /\ sock[accepted[c]].io =
               <<ReadEvent("authenticate", [kind |-> "HandshakeRequest"], TRUE),
                 WriteEvent("authenticate", <<SOCKS_VERSION, PASSWORD>>, TRUE),
                 ReadEvent("execute", [kind |-> "PasswordRequest"], TRUE),
                 WriteEvent("execute", <<1, 0>>, TRUE)>>

\* The write of a handshake response fails on this step.
HandshakeWriteFails(c) ==
    /\ fut[c].op = "authenticate"
    /\ fut[c].pc \in {"accept_write_to", "reject_write_to"}
    /\ Seen(fut[c].stream) # <<>>
    /\ ~Seen(fut[c].stream)[1].ok

\* C16: if writing the handshake response fails, on the accept branch or on
\* the rejection branch, authenticate returns Error::Io together with the
\* transport and does not advance to Authenticated; on the rejection branch the
\* write failure is reported instead of NoAcceptableHandshakeMethod.
C16_HandshakeWriteFailure ==
    [][\A c \in Conns :
          HandshakeWriteFails(c) =>
              /\ Seen(fut[c].stream) =
                     <<WriteEvent("authenticate",
                                  <<SOCKS_VERSION,
                                    IF fut[c].pc = "accept_write_to"
                                    THEN as_handshake_method(fut[c].auth)
                                    ELSE UNACCEPTABLE>>,
                                  FALSE)>>
              /\ (fut[c].pc = "accept_write_to") <=>
                     contains(fut[c].req.methods, as_handshake_method(fut[c].auth))
              /\ Returns(c)
              /\ result'[c] = [err |-> Error_Io, op |-> "authenticate", tag |-> "Err"]
              /\ raw'[c] = {fut[c].stream}
              /\ conn'[c] = Moved
      ]_vars

\* C16 witness: the client offered nothing the server accepts, the write of
\* the rejection failed, and the caller holds Error::Io and the transport.
C16_Witness ==
    \E c \in Conns :
        /\ result[c] = [err |-> Error_Io, op |-> "authenticate", tag |-> "Err"]
        /\ LastEvent(accepted[c]) =
               WriteEvent("authenticate", <<SOCKS_VERSION, UNACCEPTABLE>>, FALSE)
        /\ raw[c] = {accepted[c]}
        /\ conn[c] = Moved

\* authenticate can return Ok with an Authenticated and the output `output`.
CanReturnOk(c, output) ==
    ENABLED (/\ authenticate_execute(c)
             /\ result'[c] = [op |-> "authenticate", output |-> output, tag |-> "Ok"]
             /\ conn'[c] = Authenticated_new(accepted[c]))

\* C17 (state part): once the response naming the offered method is written
\* and execute is next, authenticate can return Ok with each output execute
\* can produce; and whatever output an Ok carries, the caller holds an
\* Authenticated on which wait_request can be called.
C17_EveryOutputIsOk ==
    \A c \in Conns :
        /\ (fut[c].op = "authenticate" /\ fut[c].pc = "execute") =>
               \A run \in ExecuteRuns(fut[c].auth, fut[c].stream) :
                   CanReturnOk(c, run.output)
        /\ (result[c].tag = "Ok" /\ result[c].op = "authenticate"
                /\ conn[c].type = "Authenticated") =>
               ENABLED wait_request(c)

\* C17 (step part): the step that runs execute returns Ok with the
\* Authenticated and execute's output, never an error.
C17_OutputReturned ==
    \A c \in Conns :
        ExecuteInvoked(c) =>
            /\ Returns(c)
            /\ conn'[c] = Authenticated_new(fut[c].stream)
            /\ raw'[c] = {}
            /\ \E run \in ExecuteRuns(fut[c].auth, fut[c].stream) :
                   /\ Seen(fut[c].stream) = run.io
                   /\ result'[c] = [op |-> "authenticate", output |-> run.output, tag |-> "Ok"]

\* C17: once the client's methods contain the configured method and the
\* response write succeeds, authenticate returns Ok(Authenticated, output) for
\* every possible authenticator output: the outcome of the sub-protocol is
\* never turned into a failure, and wait_request is reachable whatever value
\* execute produced.
C17_OutputOpaque == []C17_EveryOutputIsOk /\ [][C17_OutputReturned]_vars

\* C17 witness: the password authenticator turned the client down, its output
\* came back in an Ok, and wait_request has been called on the Authenticated.
C17_Witness ==
    \E c \in Conns :
        /\ result[c] = [op |-> "authenticate", output |-> "Ok(false)", tag |-> "Ok"]
        /\ fut[c].op = "wait_request"
        /\ LastEvent(accepted[c]) = WriteEvent("execute", <<1, 1>>, TRUE)

\* A call of a passthrough accessor of IncomingConnection, of Authenticated or
\* of Connect<NeedReply>.
PassthroughAccessor(c) ==
    \/ IncomingConnection_shutdown(c)
    \/ IncomingConnection_local_addr(c)
    \/ IncomingConnection_peer_addr(c)
    \/ IncomingConnection_linger(c)
    \/ IncomingConnection_set_linger(c)
    \/ IncomingConnection_nodelay(c)
    \/ IncomingConnection_set_nodelay(c)
    \/ IncomingConnection_ttl(c)
    \/ IncomingConnection_set_ttl(c)
    \/ Authenticated_shutdown(c)
    \/ Authenticated_local_addr(c)
    \/ Authenticated_peer_addr(c)
    \/ Authenticated_linger(c)
    \/ Authenticated_set_linger(c)
    \/ Authenticated_nodelay(c)
    \/ Authenticated_set_nodelay(c)
    \/ Authenticated_ttl(c)
    \/ Authenticated_set_ttl(c)
    \/ Connect_shutdown(c)
    \/ Connect_local_addr(c)
    \/ Connect_peer_addr(c)
    \/ Connect_linger(c)
    \/ Connect_set_linger(c)
    \/ Connect_nodelay(c)
    \/ Connect_set_nodelay(c)
    \/ Connect_ttl(c)
    \/ Connect_set_ttl(c)

\* The names the passthrough accessors of the three stages leave on a socket.
AccessorCalls ==
    { s \o "::" \o m : s \in {"IncomingConnection", "Authenticated", "Connect<NeedReply>"},
                       m \in {"shutdown", "set_linger", "set_nodelay", "set_ttl"} }

\* The stage's transition operation can be called.
TransitionAvailable(c) ==
    CASE conn[c].type = "IncomingConnection" -> ENABLED authenticate(c)
      [] conn[c].type = "Authenticated" -> ENABLED wait_request(c)
      [] conn[c].type = "Connect" /\ conn[c].state = "NeedReply" -> ENABLED reply(c)
      [] OTHER -> TRUE

\* C18 (state part): whatever accessors were called, a wrapper the caller
\* holds offers its stage's transition, and no accessor has read or written
\* anything: all they leave on a socket are half-closes and option settings.
C18_StageKept ==
    /\ \A c \in Conns : fut[c] = NoFuture => TransitionAvailable(c)
    /\ \A h \in Handles : \A i \in 1..Len(sock[h].io) :
           sock[h].io[i].by \in AccessorCalls =>
               sock[h].io[i].io \in {"shutdown", "setsockopt"}

\* C18 (step part): a call of an accessor leaves the wrapper, its stage and
\* its transport as they were, starts no operation, returns no stream, and
\* reads and writes nothing.
C18_AccessorFrame ==
    \A c \in Conns :
        PassthroughAccessor(c) =>
            /\ conn' = conn
            /\ conn[c].type \in {"IncomingConnection", "Authenticated", "Connect"}
            /\ UNCHANGED <<fut, raw, result, accepted>>
            /\ \A h \in Handles \ {conn[c].stream} : sock'[h] = sock[h]
            /\ \A i \in 1..Len(Seen(conn[c].stream)) :
                   /\ Seen(conn[c].stream)[i].io \in {"shutdown", "setsockopt"}
                   /\ Seen(conn[c].stream)[i].by \in AccessorCalls

\* C18: the passthrough accessors (local_addr, peer_addr, linger/set_linger,
\* nodelay/set_nodelay, ttl/set_ttl, shutdown) of IncomingConnection,
\* Authenticated and Connect<NeedReply> leave the pipeline stage unchanged:
\* after any sequence of them the wrapper is in the same stage with the same
\* transport, no handshake, request or reply message has been read or
\* written, and the stage's transition operation is still available.
C18_AccessorsKeepStage == []C18_StageKept /\ [][C18_AccessorFrame]_vars

\* C18 witness: options were set and the write half closed through the
\* accessors of two stages, and the caller holds a Connect<NeedReply> on
\* which reply can be called.
C18_Witness ==
    \E c \in Conns :
        /\ conn[c] = Connect_NeedReply_new(accepted[c])
        /\ ENABLED reply(c)
        /\ \E i, j \in 1..Len(sock[accepted[c]].io) :
               /\ sock[accepted[c]].io[i] = SetOptionEvent("IncomingConnection::set_ttl")
               /\ sock[accepted[c]].io[j] = ShutdownEvent("Connect<NeedReply>::shutdown", TRUE)

\* The stream operations.
StreamOps == {"read", "write", "flush", "shutdown"}

\* What an operation applied to the TcpStream h itself may leave on it.
OnTransport(h, io) ==
    CASE io = "read" -> {ReadEvent("TcpStream", [kind |-> "data"], TRUE)}
      [] io = "write" -> {WriteEvent("TcpStream", DataBytes, ok) : ok \in WriteOutcomes(h)}
      [] io = "flush" -> {[by |-> "TcpStream", io |-> "flush", ok |-> TRUE]}
      [] io = "shutdown" -> {ShutdownEvent("TcpStream", ok) : ok \in BOOLEAN}

\* The event e, had it been made on the TcpStream itself.
AsDirect(e) == [e EXCEPT !.by = "TcpStream"]

\* The step applies one operation to socket h, as `by`, with the effect the
\* operation has on the TcpStream: one event, appended, with the outcome the
\* stream gives, and a write half closed by a half-close that succeeded.
TransparentStep(h, by) ==
    /\ Len(Seen(h)) = 1
    /\ LET e == Seen(h)[1] IN
           /\ e.by = by
           /\ e.io \in StreamOps
           /\ AsDirect(e) \in OnTransport(h, e.io)
           /\ sock'[h] = [io |-> Append(sock[h].io, e),
                          wr_shutdown |-> sock[h].wr_shutdown \/ (e.io = "shutdown" /\ e.ok)]
    /\ \A g \in Handles \ {h} : sock'[g] = sock[g]
    /\ UNCHANGED <<conn, fut, raw, result, accepted>>

\* A Connect<Ready> operation can leave the event e on the stream.
ReadyCanLeave(c, e) ==
    ENABLED (/\ \/ Ready_poll_read(c)
                \/ Ready_poll_write(c)
                \/ Ready_poll_flush(c)
                \/ Ready_poll_shutdown(c)
             /\ sock'[conn[c].stream].io = Append(sock[conn[c].stream].io, e))

\* C19 (state part): every outcome an operation has on the transport it has
\* through Connect<Ready>, and a Connect<Ready> wraps the accepted transport.
C19_SameOutcomes ==
    \A c \in Conns :
        (IsConnectReady(c) /\ fut[c] = NoFuture) =>
            /\ conn[c].stream = accepted[c]
            /\ Cardinality(CallerEvents(conn[c].stream)) < MaxCallerOps =>
                   \A io \in StreamOps : \A d \in OnTransport(conn[c].stream, io) :
                       ReadyCanLeave(c, [d EXCEPT !.by = "Connect<Ready>"])

\* C19 (step part): a step that touches the transport of a Connect<Ready>
\* is one stream operation with the effect it has on the transport, and so is
\* a step on the TcpStream the conversion gave; the conversion gives the
\* transport the Connect<Ready> wrapped, and touches no socket.
C19_Delegates ==
    \A c \in Conns :
        /\ (IsConnectReady(c) /\ fut[c] = NoFuture /\ sock' # sock) =>
               TransparentStep(conn[c].stream, "Connect<Ready>")
        /\ (IsConnectReady(c) /\ conn'[c] # conn[c]) =>
               /\ conn'[c] = Moved
               /\ raw'[c] = {conn[c].stream}
               /\ UNCHANGED <<fut, result, sock, accepted>>
        /\ (result[c] = [op |-> "reply", tag |-> "Ok"] /\ raw[c] # {} /\ sock' # sock) =>
               TransparentStep(accepted[c], "TcpStream")

\* C19: in the Ready state a Connect is a transparent duplex stream: every
\* read, write, flush and half-close on Connect<Ready> has exactly the effect
\* of the same operation on the underlying transport (same bytes, same
\* order, same result), and converting it to the raw transport yields that
\* same transport.
C19_TransparentStream == []C19_SameOutcomes /\ [][C19_Delegates]_vars

\* C19 witness: bytes were written through Connect<Ready>, the Connect<Ready>
\* was converted, and the next bytes were written to the TcpStream it gave,
\* which is the accepted transport and has seen both writes in order.
C19_Witness ==
    \E c \in Conns :
        /\ result[c] = [op |-> "reply", tag |-> "Ok"]
        /\ raw[c] = {accepted[c]}
        /\ LET io == sock[accepted[c]].io IN
               /\ Len(io) > 1
               /\ io[Len(io) - 1] = WriteEvent("Connect<Ready>", DataBytes, TRUE)
               /\ io[Len(io)] = WriteEvent("TcpStream", DataBytes, TRUE)

\* The replies of Bind that were written to socket h, in order.
BindRepliesWritten(h) ==
    SelectSeq(sock[h].io,
              LAMBDA e : /\ e.by \in {"Bind<NeedFirstReply>::reply", "Bind<NeedSecondReply>::reply"}
                         /\ e.io = "write"
                         /\ e.ok)

\* The by-names of the replies written so far for a Bind in `state`.
BindRepliesOf(state) ==
    CASE state = "NeedFirstReply" -> <<>>
      [] state = "NeedSecondReply" -> <<"Bind<NeedFirstReply>::reply">>
      [] state = "Ready" -> <<"Bind<NeedFirstReply>::reply", "Bind<NeedSecondReply>::reply">>

\* C20 (state part): a Bind the caller holds is in NeedFirstReply with no
\* reply written, in NeedSecondReply with the first written, or in Ready with
\* the first and then the second written, each once.
C20_RepliesInOrder ==
    \A c \in Conns :
        conn[c].type = "Bind" =>
            /\ conn[c].state \in {"NeedFirstReply", "NeedSecondReply", "Ready"}
            /\ LET written == BindRepliesWritten(conn[c].stream) IN
                   /\ Len(written) = Len(BindRepliesOf(conn[c].state))
                   /\ \A i \in 1..Len(written) :
                          written[i].by = BindRepliesOf(conn[c].state)[i]

\* C20 (step part): wait_request hands out a Bind in NeedFirstReply; a reply
\* of Bind that was written advances it by one state; a reply that could not
\* be written returns the I/O error with the transport and no Bind.
C20_OneStatePerReply ==
    \A c \in Conns :
        /\ (Returns(c) /\ fut[c].op = "wait_request" /\ conn'[c].type = "Bind") =>
               conn'[c] = Bind_NeedFirstReply_new(fut[c].stream)
        /\ (Returns(c) /\ fut[c].op \in {"Bind<NeedFirstReply>::reply",
                                        "Bind<NeedSecondReply>::reply"}) =>
               /\ Len(Seen(fut[c].stream)) = 1
               /\ Seen(fut[c].stream)[1] =
                      WriteEvent(fut[c].op, Response_bytes(fut[c].resp), Seen(fut[c].stream)[1].ok)
               /\ IF Seen(fut[c].stream)[1].ok
                  THEN /\ conn'[c] = IF fut[c].op = "Bind<NeedFirstReply>::reply"
                                     THEN Bind_NeedSecondReply_new(fut[c].stream)
                                     ELSE Bind_Ready_new(fut[c].stream)
                       /\ result'[c] = [op |-> fut[c].op, tag |-> "Ok"]
                       /\ raw'[c] = raw[c]
                  ELSE /\ conn'[c] = Moved
                       /\ result'[c] = [err |-> IoError, op |-> fut[c].op, tag |-> "Err"]
                       /\ raw'[c] = {fut[c].stream}

\* C20: the Bind stage requires two replies in order before the stream is
\* usable: it starts in NeedFirstReply, a successful first reply moves it to
\* the second-reply state, a successful second reply moves it to Ready,
\* Ready is never reached with fewer than two successful reply writes, and a
\* write failure of either reply returns the error with the transport
\* without advancing.
C20_BindTwoReplies == []C20_RepliesInOrder /\ [][C20_OneStatePerReply]_vars

\* C20 witness: the second reply of a Bind was written after the first and
\* the caller holds the Bind, Ready.
C20_Witness ==
    \E c \in Conns :
        /\ conn[c] = Bind_Ready_new(accepted[c])
        /\ result[c] = [op |-> "Bind<NeedSecondReply>::reply", tag |-> "Ok"]
        /\ Len(BindRepliesWritten(accepted[c])) = 2

\* The run of connection c has ended: the caller holds a command stage in
\* Ready, or an error and the transport.
Terminal(c) ==
    /\ fut[c] = NoFuture
    /\ \/ /\ conn[c].type \in {"Connect", "Bind", "Associate"}
          /\ conn[c].state = "Ready"
          /\ conn[c].stream = accepted[c]
          /\ result[c].tag = "Ok"
          /\ raw[c] = {}
       \/ /\ conn[c] = Moved
          /\ result[c].tag = "Err"
          /\ raw[c] = {accepted[c]}

\* The `.await`s an operation in progress still has before it at most.
AwaitsLeft(f) ==
    CASE f = NoFuture -> 0
      [] f.op = "authenticate" /\ f.pc = "read_from" -> 3
      [] f.op = "authenticate" /\ f.pc = "accept_write_to" -> 2
      [] OTHER -> 1

\* C21 (state part): an operation in progress waits for its own next I/O
\* step and for nothing else.
C21_OnlyOwnIo == \A c \in Conns : fut[c] # NoFuture => ENABLED Await(c)

\* C21 (step part): a step of an operation in progress is one of its I/O
\* steps, after which it has fewer left: no operation loops.
C21_NoLoop ==
    \A c \in Conns :
        (fut[c] # NoFuture /\ <<fut[c], sock>> # <<fut'[c], sock'>>) =>
            /\ AwaitsLeft(fut'[c]) < AwaitsLeft(fut[c])
            /\ Len(Seen(fut[c].stream)) <= 2

\* C21: provided every read and write on the transport and the
\* authenticator's execute eventually complete, with success or failure, a
\* pipeline run always terminates in a terminal outcome: a command stage in
\* Ready, or an error paired with the transport; no stage operation loops or
\* waits for anything other than its own single I/O steps.
C21_Terminates ==
    /\ \A c \in Conns : <>[]Terminal(c)
    /\ []C21_OnlyOwnIo
    /\ [][C21_NoLoop]_vars

\* C21 witness: a run that went through the password sub-negotiation and a
\* Connect request has ended with the Connect in Ready, six I/O steps in all.
C21_Witness ==
    \E c \in Conns :
        /\ Terminal(c)
        /\ IsConnectReady(c)
        /\ Len(sock[accepted[c]].io) = 6
        /\ ~ENABLED NextPipeline

\* What belongs to connection c: its bindings, its operation in progress, its
\* result and its transport.
Own(c) == <<conn[c], fut[c], raw[c], result[c], sock[accepted[c]]>>

\* The handles the bindings and the operation of connection c hold.
Held(c) ==
    (IF conn[c] = Moved THEN {} ELSE {conn[c].stream})
        \cup (IF fut[c] = NoFuture THEN {} ELSE {fut[c].stream})
        \cup raw[c]

\* C22 (state part): each connection holds its own transport and no other,
\* the two transports differ, the authenticator is the one both were given,
\* and a transport has seen only as many events as its own connection's
\* operations made.
C22_OwnTransport ==
    /\ \A c \in TwoConns : Held(c) = {accepted[c]}
    /\ \A c, d \in TwoConns : c # d => accepted[c] # accepted[d]
    /\ \A c, d \in TwoConns :
           (conn[c].type = "IncomingConnection" /\ conn[d].type = "IncomingConnection") =>
               conn[c].auth = conn[d].auth
    /\ \A c \in TwoConns :
           (conn[c].type = "IncomingConnection") => sock[accepted[c]].io = <<>>

\* The operation of the stage a wrapper is in.
OperationOf(w) ==
    CASE w.type = "IncomingConnection" -> "authenticate"
      [] w.type = "Authenticated" -> "wait_request"
      [] w.type = "Connect" -> "reply"
      [] w.type = "Bind" /\ w.state = "NeedFirstReply" -> "Bind<NeedFirstReply>::reply"
      [] w.type = "Bind" -> "Bind<NeedSecondReply>::reply"
      [] OTHER -> "Associate<NeedReply>::reply"

\* Where in a run an event falls.
RunOrder(by) ==
    CASE by = "authenticate" -> 1
      [] by = "execute" -> 2
      [] by = "wait_request" -> 3
      [] by = "Bind<NeedSecondReply>::reply" -> 5
      [] OTHER -> 4

\* The step of connection c, told by what belongs to c alone: a call moves
\* c's wrapper and c's transport into the operation of c's stage; a step of
\* that operation reads and writes c's transport under its own name, writes
\* the bytes of its own response, and returns its own result with c's
\* transport, in a wrapper or beside the error.
OwnStep(c) ==
    IF fut[c] = NoFuture
    THEN /\ conn[c] # Moved
         /\ fut'[c].op = OperationOf(conn[c])
         /\ fut'[c].stream = conn[c].stream
         /\ conn'[c] = Moved
         /\ <<raw'[c], result'[c], sock'[accepted[c]]>> = <<raw[c], result[c], sock[accepted[c]]>>
    ELSE /\ Seen(accepted[c]) # <<>> \/ fut[c].pc = "execute"
         /\ \A i \in 1..Len(Seen(accepted[c])) :
                LET e == Seen(accepted[c])[i] IN
                    /\ e.by = IF fut[c].pc = "execute" THEN "execute" ELSE fut[c].op
                    /\ (e.io = "write" /\ e.by = "authenticate") =>
                           e.bytes = HandshakeResponse_bytes(fut[c].resp)
                    /\ (e.io = "write" /\ e.by \in ReplyOps) =>
                           e.bytes = Response_bytes(fut[c].resp)
         /\ \/ /\ fut'[c] # NoFuture
               /\ fut'[c].op = fut[c].op
               /\ fut'[c].stream = fut[c].stream
               /\ <<conn'[c], raw'[c], result'[c]>> = <<conn[c], raw[c], result[c]>>
            \/ /\ fut'[c] = NoFuture
               /\ result'[c].op = fut[c].op
               /\ IF result'[c].tag = "Ok"
                  THEN conn'[c] # Moved /\ conn'[c].stream = accepted[c] /\ raw'[c] = {}
                  ELSE conn'[c] = Moved /\ raw'[c] = {accepted[c]}

\* C22 (state part, progress): a connection whose run has not ended can take
\* its next step wherever the other connection is, one whose run has ended
\* takes none, and what its transport has seen is in the order of one run.
C22_OwnProgress ==
    \A c \in TwoConns :
        /\ ENABLED task(c) <=> ~Terminal(c)
        /\ LET io == sock[accepted[c]].io IN
               \A i \in 1..(Len(io) - 1) : RunOrder(io[i].by) <= RunOrder(io[i + 1].by)

\* C22 (step part): a step is a step of one connection: it changes what
\* belongs to that connection, as that connection's own state tells, and
\* nothing that belongs to the other: not its stage, not its result, not
\* what its transport has read and written.
C22_StepOfOne ==
    \E c \in TwoConns :
        /\ Own(c)' # Own(c)
        /\ OwnStep(c)
        /\ \A d \in TwoConns \ {c} : Own(d)' = Own(d)
        /\ accepted' = accepted

\* C22: connections are independent: for any interleaving of the pipeline
\* steps of two connections sharing the same authenticator configuration,
\* each connection's stage sequence, result and bytes written to its own
\* transport are the same as when that connection runs alone; no step of
\* one connection reads, writes or changes the stage of the other's
\* transport.
C22_Independent ==
    /\ []C22_OwnTransport
    /\ []C22_OwnProgress
    /\ [][C22_StepOfOne]_vars

\* C22 witness: the steps of the two runs were interleaved and the runs went
\* apart: the first connection's request could not be read and it holds
\* the error with its transport, the second holds a Connect in Ready.
C22_Witness ==
    /\ result["c1"].tag = "Err"
    /\ result["c1"].op = "wait_request"
    /\ raw["c1"] = {accepted["c1"]}
    /\ conn["c2"] = Connect_Ready_new(accepted["c2"])
    /\ Len(sock[accepted["c1"]].io) = 3
    /\ Len(sock[accepted["c2"]].io) = 4

====
